---- MODULE Spec2Model ----
(***************************************************************************)
(* Model of audio_manager.audio_player.AudioPlayer: the playback session   *)
(* (current_file, data, samplerate, position, playing, volume), the        *)
(* control API that mutates it and the render callback that streams it.    *)
(* Every method body runs under `with self.lock`, so in Spec each method is *)
(* one atomic action.  SpecLock splits the methods at the lock: the control *)
(* thread and the render thread take and release self.lock, load_file      *)
(* writes its fields in the order of the source, and cleanup runs.         *)
(*                                                                         *)
(* Representation.                                                         *)
(*   Optional values: None is <<>>, a present value x is <<x>>.            *)
(*   A numpy array is [ndim, rows]; a row is a tuple of samples, so a 1-D  *)
(*   array of n samples has n rows of one sample.                          *)
(*   position_seconds is the exact binary fraction k / SeekDen, and        *)
(*   a volume is the exact binary fraction v / VolDen; samples written to  *)
(*   the output are kept as sample * v, in units of 1 / VolDen.            *)
(***************************************************************************)
EXTENDS Integers, Sequences, FiniteSets, TLC

VARIABLES current_file, data, samplerate, position, playing, volume, stream,
          outdata, last, halted,
          lock, pc, device, closes, cleanups,
          transcriptions, search_index, db_last,
          directory, tree, ui_last, settings,
          filename, timestamp, files,
          run, widgets, helpers, gui,
          deleted,
          twin

vars == <<current_file, data, samplerate, position, playing, volume, stream,
          outdata, last, halted, lock, pc, device, closes, cleanups,
          transcriptions, search_index, db_last, directory, tree, ui_last,
          settings, filename, timestamp, files, run, widgets,
          helpers, gui, deleted, twin>>

\* lock: who holds self.lock ("free", "ctl", "rt"), or "none" once cleanup has
\*       set self.lock = None
\* pc: where the control thread and the render thread are, and the argument
\*     of the load_file call in progress
\* device: the PortAudio stream object ("none": never created, "open", "closed")
\* closes: calls of stream.close() so far; cleanups: calls of cleanup() so far
threads == <<lock, pc, device, closes, cleanups>>

session == <<current_file, data, samplerate, position, playing, volume>>

\* the AudioPlayer as a whole
player == <<current_file, data, samplerate, position, playing, volume, stream,
            outdata, last, halted, lock, pc, device, closes, cleanups>>

\* the application around the player (SpecStore, SpecNames, SpecSearch).
\* transcriptions, search_index: the two tables of Database, rows in the order
\*     of their insertion; db_last: the last call of a Database method
\* directory, tree: MainWindow.directory and the items of MainWindow.tree;
\*     ui_last: the last MainWindow handler that ran; settings: the value
\*     saved under 'last_directory' in the application's QSettings
\* filename, timestamp: the last argument and result of parse_audio_filename;
\*     files: the result of get_audio_files on a directory holding that file
store == <<transcriptions, search_index, db_last>>
window == <<directory, tree, ui_last, settings>>
names == <<filename, timestamp, files>>
\* run: what the device has played since the control thread made its last
\*     call (SpecPlay): phase "setup" while it still calls, "left" after
\*     ("silent" if the stream had aborted by then and no callback follows);
\*     start is the position it left, emitted the frames played since;
\*     state is the condition of the PortAudio stream: "active" while it
\*     invokes the callback, "aborting" once a callback has raised,
\*     "inactive" after the finished notification
watch == <<run>>
\* twin: the AudioPlayer of src/main.py, driven with the calls the player
\*     gets (SpecTwin): its fields, and outdata as its last callback left it
copy == <<twin>>
\* the player and what is observed of it
audio == <<player, watch, copy>>
\* widgets: the controls of MainWindow's right panel and the tree's current
\*     item: the text of play_button, the data of tree.currentItem() (None
\*     without a current item and for a node without a path), whether
\*     transcribe_button is enabled and whether the progress bar is shown
\* helpers: the threads MainWindow starts: model is self.model once the
\*     loading thread has assigned it, workers the files of the running
\*     TranscriptionWorkers in the order they were started (readable: the
\*     file was there when the worker started; emitted: the worker has
\*     emitted its signal and run() has not returned yet), read_model what
\*     the last
\*     transcribe_audio found in self.model ("unset": the attribute did not
\*     exist yet and the read raised AttributeError), queued the finished
\*     and error signals emitted and not yet delivered to the GUI thread,
\*     current whether the worker made last is still running
\* gui: where the GUI thread is: "idle" between two handlers, inside
\*     play_audio, stop_audio, seek_audio or closeEvent otherwise, "closed"
\*     once closeEvent has accepted, "aborted" once a slot has raised: PyQt6
\*     ends the process on an exception that leaves a slot, and src/ installs
\*     no sys.excepthook. seek is the local variable position of seek_audio
\*     (in units of 1 / SeekDen s) between its two calls of the player
panel == <<widgets, helpers, gui>>
\* deleted: whether the file FileGone of the directory has been deleted
disk == <<deleted>>
glue == <<store, window, names, disk, watch, panel, copy>>

(* ------------------------------ bounds -------------------------------- *)

\* frames in the stereo file
LenStereo == 3
\* samples in the mono file
LenMono == 2
\* largest frame count a render callback asks for
MaxFrames == 4
\* seek arguments range over -MaxSeek/SeekDen .. MaxSeek/SeekDen seconds
MaxSeek == 5
\* position_seconds has SeekBits fractional bits
SeekBits == 1
\* a volume argument has VolBits fractional bits
VolBits == 1
\* calls of cleanup() in one execution (closeEvent, then the atexit hook)
MaxCleanups == 2

SeekDen == 2 ^ SeekBits
VolDen == 2 ^ VolBits

(* ------------------------------ helpers ------------------------------- *)

None == <<>>
Some(x) == <<x>>
Val(o) == o[1]

Min(a, b) == IF a <= b THEN a ELSE b
Max(a, b) == IF a >= b THEN a ELSE b

\* Python int() of the rational num / den (den > 0): truncation toward zero
PyInt(num, den) == IF num >= 0 THEN num \div den ELSE -((-num) \div den)

\* Python index normalisation of one slice bound against a length
SliceBound(i, n) == IF i < 0 THEN Max(i + n, 0) ELSE Min(i, n)

\* rows[start:stop] of Python / numpy basic slicing
PySlice(rows, start, stop) ==
    LET a == SliceBound(start, Len(rows))
        b == SliceBound(stop, Len(rows))
    IN  IF a >= b THEN <<>> ELSE SubSeq(rows, a + 1, b)

\* len(self.data)
FrameCount(d) == Len(Val(d).rows)

(* ------------------------------ decoder ------------------------------- *)

Paths == {"a.wav", "m.wav", "bad.wav"}

StereoRows == [i \in 1..LenStereo |-> <<i, -i>>]
MonoRows == [i \in 1..LenMono |-> <<10 + i>>]
\* a file of three channels: sf.read returns one column per channel
SurroundRows == [i \in 1..LenMono |-> <<20 + i, 30 + i, 40 + i>>]

\* sf.read(file_path): the decoded array and its sample rate, or an exception
sf_read(file_path) ==
    CASE file_path = "a.wav" ->
           [ok |-> TRUE, data |-> [ndim |-> 2, rows |-> StereoRows],
            samplerate |-> 2, err |-> ""]
      [] file_path = "m.wav" ->
           [ok |-> TRUE, data |-> [ndim |-> 1, rows |-> MonoRows],
            samplerate |-> 1, err |-> ""]
      [] file_path = "s.wav" ->
           [ok |-> TRUE, data |-> [ndim |-> 2, rows |-> SurroundRows],
            samplerate |-> 1, err |-> ""]
      [] OTHER ->
           [ok |-> FALSE, data |-> [ndim |-> 1, rows |-> <<>>],
            samplerate |-> 0, err |-> "Error opening file"]

\* np.column_stack((d, d)) of a 1-D array d
column_stack(d) ==
    [ndim |-> 2, rows |-> [i \in 1..Len(d.rows) |-> <<d.rows[i][1], d.rows[i][1]>>]]

(* --------------------------- history record --------------------------- *)

\* the last completed operation, its arguments, result and the transport
\* state it started from; after_failed: the operation before it was a
\* load_file that failed
Op(name, path, n, ok, err, raised) ==
    [op |-> name, path |-> path, n |-> n, ok |-> ok, err |-> err,
     raised |-> raised, playing0 |-> playing, position0 |-> position,
     after_failed |-> (last.op = "load_file" /\ ~last.ok)]

(* ------------------------------- Init --------------------------------- *)

\* AudioPlayer.__init__ of audio_player.py: created and started say whether
\* sd.OutputStream(...) and stream.start() return; when one of them raises,
\* the except branch sets self.stream = None and the constructor returns
init_stream(created, started) ==
    [stream |-> created /\ started,
     device |-> IF created THEN "open" ELSE "none",
     raised |-> FALSE]

\* AudioPlayer.__init__ of src/main.py, which has no try: the exception of
\* sd.OutputStream(...) or of stream.start() leaves the constructor
main_init(created, started) ==
    [current_file |-> None, data |-> None, samplerate |-> None,
     position |-> 0, playing |-> FALSE, outdata |-> <<>>,
     raised |-> ~(created /\ started)]

\* the application once MainWindow and its AudioPlayer are constructed;
\* gone: the file FileGone had been deleted before
Constructed(gone) ==
    /\ current_file = None
    /\ data = None
    /\ samplerate = None
    /\ position = 0
    /\ playing = FALSE
    /\ volume = VolDen
    /\ \E created, started \in BOOLEAN :
          /\ stream = init_stream(created, started).stream
          /\ device = init_stream(created, started).device
          /\ last = [op |-> "init", path |-> "", n |-> 0, ok |-> TRUE,
                     err |-> "",
                     raised |-> init_stream(created, started).raised,
                     playing0 |-> FALSE, position0 |-> 0,
                     after_failed |-> FALSE]
          /\ twin = main_init(created, started)
    /\ lock = "free"
    /\ pc = [ctl |-> "idle", rt |-> "idle", file_path |-> ""]
    /\ closes = 0
    /\ cleanups = 0
    /\ outdata = <<>>
    /\ halted = FALSE
    /\ transcriptions = <<>>
    /\ search_index = <<>>
    /\ db_last = [op |-> "init", file_path |-> <<>>, query |-> <<>>,
                  text |-> <<>>, rows |-> <<>>, raised |-> FALSE,
                  replaced |-> FALSE]
    /\ directory = <<>>
    /\ tree = <<>>
    /\ ui_last = [op |-> "init", query |-> <<>>]
    /\ settings = <<>>
    /\ filename = <<>>
    /\ timestamp = <<>>
    /\ files = <<>>
    /\ run = [phase |-> "setup", start |-> 0, emitted |-> <<>>,
              state |-> "active"]
    /\ widgets = [play_button |-> "Play", current_item |-> <<>>,
                  transcribe_button |-> TRUE, progress |-> FALSE]
    /\ helpers = [model |-> <<>>, workers |-> <<>>, read_model |-> "unread",
                  queued |-> <<>>, current |-> FALSE]
    /\ gui = [at |-> "idle", seek |-> 0]
    /\ deleted = gone

\* FileGone was deleted before the application started
Init == Constructed(TRUE)

(* ----------------------------- control API ----------------------------- *)

\* load_file, success path: the array as installed (mono upmixed to stereo)
installed(r) == IF r.data.ndim = 1 THEN column_stack(r.data) ELSE r.data

\* load_file without its `except Exception`: a decode failure propagates
load_file_uncaught(file_path) ==
    LET r == sf_read(file_path) IN
    /\ IF r.ok
       THEN /\ data' = Some(installed(r))
            /\ samplerate' = Some(r.samplerate)
            /\ current_file' = Some(file_path)
            /\ position' = 0
            /\ last' = Op("load_file", file_path, 0, TRUE, "", FALSE)
       ELSE /\ last' = Op("load_file", file_path, 0, FALSE, r.err, TRUE)
            /\ UNCHANGED <<data, samplerate, current_file, position>>
    /\ UNCHANGED <<playing, volume, stream, outdata, halted>>

load_file(file_path) ==
    LET r == sf_read(file_path) IN
    /\ IF r.ok
       THEN /\ data' = Some(installed(r))
            /\ samplerate' = Some(r.samplerate)
            /\ current_file' = Some(file_path)
            /\ position' = 0
            /\ last' = Op("load_file", file_path, 0, TRUE, "", FALSE)
       ELSE /\ data' = None
            /\ samplerate' = None
            /\ current_file' = None
            /\ position' = 0
            /\ last' = Op("load_file", file_path, 0, FALSE, r.err, FALSE)
    /\ UNCHANGED <<playing, volume, stream, outdata, halted>>

\* play that also rewinds
play_rewinds ==
    /\ playing' = IF data # None THEN TRUE ELSE playing
    /\ position' = 0
    /\ last' = Op("play", "", 0, TRUE, "", FALSE)
    /\ halted' = FALSE
    /\ UNCHANGED <<current_file, data, samplerate, volume, stream, outdata>>

play ==
    /\ playing' = IF data # None THEN TRUE ELSE playing
    /\ last' = Op("play", "", 0, TRUE, "", FALSE)
    /\ halted' = FALSE
    /\ UNCHANGED <<current_file, data, samplerate, position, volume, stream, outdata>>

pause_position_reset ==
    /\ playing' = FALSE
    /\ position' = 0
    /\ last' = Op("pause", "", 0, TRUE, "", FALSE)
    /\ halted' = TRUE
    /\ UNCHANGED <<current_file, data, samplerate, volume, stream, outdata>>

pause ==
    /\ playing' = FALSE
    /\ last' = Op("pause", "", 0, TRUE, "", FALSE)
    /\ halted' = TRUE
    /\ UNCHANGED <<current_file, data, samplerate, position, volume, stream, outdata>>

stop_keeps_position ==
    /\ playing' = FALSE
    /\ last' = Op("stop", "", 0, TRUE, "", FALSE)
    /\ halted' = TRUE
    /\ UNCHANGED <<current_file, data, samplerate, position, volume, stream, outdata>>

stop ==
    /\ playing' = FALSE
    /\ position' = 0
    /\ last' = Op("stop", "", 0, TRUE, "", FALSE)
    /\ halted' = TRUE
    /\ UNCHANGED <<current_file, data, samplerate, volume, stream, outdata>>

\* seek(k / SeekDen): int(position_seconds * samplerate), then min with len(data)
seek_position(k) == Min(PyInt(k * Val(samplerate), SeekDen), FrameCount(data))

\* seek that skips the test of line 91 and takes the rate of a missing buffer
\* as 1
seek_without_buffer(k) ==
    /\ position' = IF data # None /\ samplerate # None
                   THEN seek_position(k) ELSE PyInt(k, SeekDen)
    /\ last' = Op("seek", "", k, TRUE, "", FALSE)
    /\ UNCHANGED <<current_file, data, samplerate, playing, volume, stream,
                   outdata, halted>>

seek(k) ==
    /\ position' = IF data # None /\ samplerate # None
                   THEN seek_position(k) ELSE position
    /\ last' = Op("seek", "", k, TRUE, "", FALSE)
    /\ UNCHANGED <<current_file, data, samplerate, playing, volume, stream,
                   outdata, halted>>

\* set_volume without max(0.0, ...)
set_volume_upper_only(v) ==
    /\ volume' = Min(VolDen, v)
    /\ last' = Op("set_volume", "", v, TRUE, "", FALSE)
    /\ UNCHANGED <<current_file, data, samplerate, position, playing, stream,
                   outdata, halted>>

\* set_volume(v / VolDen)
set_volume(v) ==
    /\ volume' = Max(0, Min(VolDen, v))
    /\ last' = Op("set_volume", "", v, TRUE, "", FALSE)
    /\ UNCHANGED <<current_file, data, samplerate, position, playing, stream,
                   outdata, halted>>

\* get_position() as the rational <<numerator, denominator>>
get_position == IF samplerate # None THEN <<position, Val(samplerate)>> ELSE <<0, 1>>

\* get_duration() as the rational <<numerator, denominator>>
get_duration ==
    IF data # None /\ samplerate # None
    THEN <<FrameCount(data), Val(samplerate)>> ELSE <<0, 1>>

is_playing == playing

get_current_file == current_file

(* --------------------------- render callback --------------------------- *)

\* an output frame the callback has not assigned
Unwritten == <<>>
Silence == <<0, 0>>

\* the output buffer as PortAudio hands it over: frames rows, none assigned
fresh(frames) == [i \in 1..frames |-> Unwritten]

\* outdata.fill(0)
fill0(frames) == [i \in 1..frames |-> Silence]

\* self.data[a:b] * self.volume
scaled(rows) == [i \in 1..Len(rows) |-> [c \in 1..Len(rows[i]) |-> rows[i][c] * volume]]

\* numpy can assign src to n rows of 2 columns: same shape, or one row broadcast
can_assign(src, n) ==
    /\ Len(src) = n \/ Len(src) = 1
    /\ \A i \in 1..Len(src) : Len(src[i]) = 2

\* outdata[:n] = src
assign(buf, n, src) ==
    [i \in 1..Len(buf) |->
        IF i <= n THEN (IF Len(src) = 1 THEN src[1] ELSE src[i]) ELSE buf[i]]

\* outdata[n:] = 0
zero_tail(buf, n) == [i \in 1..Len(buf) |-> IF i > n THEN Silence ELSE buf[i]]

idle_ignores_playing == data = None

idle_needs_both == data = None /\ ~playing

\* line 141: nothing to play
idle == data = None \/ ~playing

end_of_stream_past_end == position > FrameCount(data)

end_of_stream == position >= FrameCount(data)

valid_frames(frames) == Min(frames, FrameCount(data) - position)

output_data(frames) ==
    scaled(PySlice(Val(data).rows, position, position + valid_frames(frames)))

callback(frames) ==
    /\ stream
    /\ IF idle
       THEN /\ outdata' = fill0(frames)
            /\ last' = Op("callback", "", frames, TRUE, "", FALSE)
            /\ UNCHANGED <<position, playing>>
       ELSE IF end_of_stream
       THEN /\ playing' = FALSE
            /\ outdata' = fill0(frames)
            /\ last' = Op("callback", "", frames, TRUE, "", FALSE)
            /\ UNCHANGED position
       ELSE IF can_assign(output_data(frames), valid_frames(frames))
       THEN /\ outdata' =
                 LET written == assign(fresh(frames), valid_frames(frames),
                                       output_data(frames))
                 IN  IF valid_frames(frames) < frames
                     THEN zero_tail(written, valid_frames(frames)) ELSE written
            /\ position' = position + valid_frames(frames)
            /\ last' = Op("callback", "", frames, TRUE, "", FALSE)
            /\ UNCHANGED playing
       ELSE \* line 156 raises ValueError: nothing assigned, nothing advanced
            /\ outdata' = fresh(frames)
            /\ last' = Op("callback", "", frames, FALSE, "ValueError", TRUE)
            /\ UNCHANGED <<position, playing>>
    /\ UNCHANGED <<current_file, data, samplerate, volume, stream, halted>>

\* finished_callback without line 167
finished_callback_keeps_position ==
    /\ stream
    /\ playing' = FALSE
    /\ last' = Op("finished_callback", "", 0, TRUE, "", FALSE)
    /\ UNCHANGED <<current_file, data, samplerate, position, volume, stream,
                   outdata, halted>>

finished_callback ==
    /\ stream
    /\ playing' = FALSE
    /\ position' = 0
    /\ last' = Op("finished_callback", "", 0, TRUE, "", FALSE)
    /\ UNCHANGED <<current_file, data, samplerate, volume, stream, outdata, halted>>

(* ---------------------------- specification ---------------------------- *)

\* Spec: every method runs to completion before the next one starts
Next ==
    \/ (\E file_path \in Paths : load_file(file_path)) /\ UNCHANGED <<threads, glue>>
    \/ play /\ UNCHANGED <<threads, glue>>
    \/ pause /\ UNCHANGED <<threads, glue>>
    \/ stop /\ UNCHANGED <<threads, glue>>
    \/ (\E k \in -MaxSeek..MaxSeek : seek(k)) /\ UNCHANGED <<threads, glue>>
    \/ (\E v \in -1..(VolDen + 1) : set_volume(v)) /\ UNCHANGED <<threads, glue>>
    \/ (\E frames \in 1..MaxFrames : callback(frames)) /\ UNCHANGED <<threads, glue>>
    \/ finished_callback /\ UNCHANGED <<threads, glue>>

Spec == Init /\ [][Next]_vars

\* SpecDecode: Spec with a file of more than two channels among the files
\* load_file is given
DecodePaths == Paths \cup {"s.wav"}

NextDecode ==
    \/ (\E file_path \in DecodePaths : load_file(file_path)) /\ UNCHANGED <<threads, glue>>
    \/ play /\ UNCHANGED <<threads, glue>>
    \/ pause /\ UNCHANGED <<threads, glue>>
    \/ stop /\ UNCHANGED <<threads, glue>>
    \/ (\E k \in -MaxSeek..MaxSeek : seek(k)) /\ UNCHANGED <<threads, glue>>
    \/ (\E v \in -1..(VolDen + 1) : set_volume(v)) /\ UNCHANGED <<threads, glue>>
    \/ (\E frames \in 1..MaxFrames : callback(frames)) /\ UNCHANGED <<threads, glue>>
    \/ finished_callback /\ UNCHANGED <<threads, glue>>

SpecDecode == Init /\ [][NextDecode]_vars

(* ------------------------------- claims -------------------------------- *)

Clamp(x, lo, hi) == Max(lo, Min(hi, x))

\* the rational num / den (den > 0) rounded to the nearest integer, ties to even
Round(num, den) ==
    LET n == IF num >= 0 THEN num ELSE -num
        q == n \div den
        r == n - q * den
        m == IF 2 * r < den THEN q
             ELSE IF 2 * r > den THEN q + 1
             ELSE IF q % 2 = 0 THEN q ELSE q + 1
    IN  IF num >= 0 THEN m ELSE -m

Loaded == data # None

\* C1: a load_file whose decode succeeds installs the decoded buffer, sets
\* position to 0, playing to false and current_file to the path, and returns
\* (True, ""), whatever the state it started from.
C1_LoadSuccessResetsSession ==
    [][(last'.op = "load_file" /\ sf_read(last'.path).ok) =>
          /\ data' = Some(installed(sf_read(last'.path)))
          /\ position' = 0
          /\ playing' = FALSE
          /\ current_file' = Some(last'.path)
          /\ last'.ok /\ last'.err = ""]_vars

\* C2: a load_file whose decode fails leaves buffer, sample rate, current_file,
\* position, playing and volume as they were, and so the three getters too.
C2_LoadFailureKeepsSession ==
    [][(last'.op = "load_file" /\ ~sf_read(last'.path).ok) =>
          /\ session' = session
          /\ get_current_file' = get_current_file
          /\ get_position' = get_position
          /\ is_playing' = is_playing]_vars

\* C3: whenever a buffer is loaded, 0 <= position <= frame count.
C3_PositionInRange ==
    Loaded => (0 <= position /\ position <= FrameCount(data))

\* C4: seek(s) with a buffer loaded moves position to
\* clamp(round(s * sample_rate), 0, frame_count), and get_position() is that
\* frame index over the sample rate.
C4_SeekClampsRounded ==
    [][(last'.op = "seek" /\ Loaded) =>
          LET target == Clamp(Round(last'.n * Val(samplerate), SeekDen),
                              0, FrameCount(data))
          IN  /\ position' = target
              /\ get_position' = <<target, Val(samplerate)>>]_vars

\* C5: no render callback raises, in any state the control API can produce.
C5_CallbackNeverRaises ==
    last.op = "callback" => ~last.raised

\* the output the claim C6 describes: the frames left from position on, each
\* sample times the volume, then silence
RemainingThenSilence(frames) ==
    [i \in 1..frames |->
        IF position + i \in 1..FrameCount(data)
        THEN <<Val(data).rows[position + i][1] * volume,
               Val(data).rows[position + i][2] * volume>>
        ELSE IF position + i > FrameCount(data)
        THEN Silence
        ELSE Unwritten  \* there is no frame position + i in the buffer
    ]

ShortRequest ==
    /\ last'.op = "callback"
    /\ Loaded /\ playing
    /\ 0 < FrameCount(data) - position
    /\ FrameCount(data) - position < last'.n

\* C6: a callback asked for more frames than remain writes the rest of the
\* buffer scaled by the volume, then silence, and playing is false as soon
\* as it returns.
C6_ShortCallbackStopsAtOnce ==
    [][ShortRequest =>
          /\ outdata' = RemainingThenSilence(last'.n)
          /\ is_playing' = FALSE]_vars

\* C7: play() sets playing only when a buffer is loaded and otherwise changes
\* nothing, so playing is never true while no buffer is loaded.
C7_PlayingOnlyWithBuffer ==
    /\ [][last'.op = "play" =>
            IF Loaded THEN playing' = TRUE ELSE session' = session]_vars
    /\ [](playing => Loaded)

\* C8: pause() sets playing to false and leaves position, buffer, sample rate,
\* volume and current_file alone; a play() that follows it resumes at the
\* position pause() was called at.
C8_PauseKeepsPosition ==
    [][/\ last'.op = "pause" =>
             /\ playing' = FALSE
             /\ UNCHANGED <<position, data, samplerate, volume, current_file>>
       /\ (last.op = "pause" /\ last'.op = "play") =>
             /\ position' = last.position0
             /\ Loaded => playing']_vars

C8_Witness ==
    /\ last.op = "pause" /\ last.playing0
    /\ Loaded /\ 0 < last.position0
    /\ position = last.position0 /\ ~playing

\* C9: stop() sets playing to false and position to 0 from any state and
\* leaves buffer, sample rate, volume and current_file alone.
C9_StopResets ==
    [][last'.op = "stop" =>
          /\ playing' = FALSE
          /\ position' = 0
          /\ UNCHANGED <<data, samplerate, volume, current_file>>]_vars

C9_Witness ==
    /\ last.op = "stop" /\ last.playing0 /\ 0 < last.position0
    /\ Loaded /\ position = 0 /\ ~playing

\* C10: from the return of pause() or stop() until the next play(), every
\* render callback writes only silence and does not move position.
C10_SilentUntilPlay ==
    [][(halted /\ last'.op = "callback") =>
          /\ outdata' = fill0(last'.n)
          /\ position' = position
          /\ ~last'.raised]_vars

C10_Witness ==
    /\ halted /\ last.op = "callback"
    /\ Loaded /\ 0 < position /\ position < FrameCount(data)
    /\ outdata = fill0(last.n)

\* the output the normal branch is to produce: valid frames from position on,
\* each sample times the volume, then silence
NormalOutput(frames) ==
    LET valid == Min(frames, FrameCount(data) - position) IN
    [i \in 1..frames |->
        IF i <= valid
        THEN IF position + i \in 1..FrameCount(data)
             THEN <<Val(data).rows[position + i][1] * volume,
                    Val(data).rows[position + i][2] * volume>>
             ELSE Unwritten  \* there is no frame position + i in the buffer
        ELSE Silence]

\* C11: normal branch of the callback: with a buffer loaded, playing and
\* position < frame count, it writes valid = min(N, frame_count - position)
\* frames from position on, scaled by the volume, then zeros, and advances
\* position by valid; playing, volume, buffer and current_file stay.
C11_NormalBranch ==
    [][(last'.op = "callback" /\ Loaded /\ playing
           /\ position < FrameCount(data)) =>
          /\ ~last'.raised
          /\ outdata' = NormalOutput(last'.n)
          /\ position' = position + Min(last'.n, FrameCount(data) - position)
          /\ UNCHANGED <<playing, volume, data, samplerate, current_file>>]_vars

\* C12: end-of-stream branch of the callback: with a buffer loaded, playing
\* and position >= frame count, it sets playing to false, writes N frames of
\* silence and leaves position alone.
C12_EndOfStreamBranch ==
    [][(last'.op = "callback" /\ Loaded /\ playing
           /\ position >= FrameCount(data)) =>
          /\ playing' = FALSE
          /\ is_playing' = FALSE
          /\ outdata' = fill0(last'.n)
          /\ ~last'.raised
          /\ UNCHANGED <<position, volume, data, samplerate, current_file>>]_vars

C12_Witness ==
    /\ last.op = "callback" /\ last.playing0
    /\ Loaded /\ last.position0 = FrameCount(data)
    /\ FrameCount(data) > 0
    /\ ~playing /\ position = last.position0
    /\ outdata = fill0(last.n)

\* C13: idle branch of the callback: with no buffer loaded or playing false,
\* it writes N frames of silence and changes no session field.
C13_IdleBranch ==
    [][(last'.op = "callback" /\ (~Loaded \/ ~playing)) =>
          /\ outdata' = fill0(last'.n)
          /\ ~last'.raised
          /\ session' = session]_vars

C13_Witness ==
    /\ last.op = "callback" /\ ~last.playing0
    /\ Loaded /\ 0 < position /\ position < FrameCount(data)
    /\ ~playing /\ position = last.position0
    /\ outdata = fill0(last.n)

\* C14: whatever branch the callback takes, all N output frames and only
\* those are assigned, each a scaled sample or zero.
C14_ExactlyNFramesWritten ==
    last.op = "callback" =>
        /\ Len(outdata) = last.n
        /\ \A i \in 1..Len(outdata) : outdata[i] # Unwritten

\* C21: set_volume(v) stores clamp(v, 0, 1) for every v, raises nothing and
\* changes no other session field; so 0 <= volume <= 1 in every state.
C21_VolumeClamped ==
    /\ [](0 <= volume /\ volume <= VolDen)
    /\ [][last'.op = "set_volume" =>
            /\ volume' = Clamp(last'.n, 0, VolDen)
            /\ ~last'.raised
            /\ UNCHANGED <<current_file, data, samplerate, position, playing>>]_vars

C21_Witness ==
    /\ last.op = "set_volume" /\ last.n < 0
    /\ volume = 0
    /\ Loaded /\ playing /\ 0 < position

\* C22: the finished notification sets position to 0 and playing to false
\* from any state; the end-of-stream branch of the callback sets playing to
\* false and leaves position at the frame count; both leave buffer, sample
\* rate, volume and current_file alone.
C22_TwoEndOfTrackTransitions ==
    [][/\ last'.op = "finished_callback" =>
             /\ position' = 0
             /\ playing' = FALSE
             /\ UNCHANGED <<data, samplerate, volume, current_file>>
       /\ (last'.op = "callback" /\ Loaded /\ playing
              /\ position >= FrameCount(data)) =>
             /\ playing' = FALSE
             /\ position' = FrameCount(data)
             /\ UNCHANGED <<data, samplerate, volume, current_file>>]_vars

C22_Witness ==
    /\ last.op = "finished_callback" /\ last.playing0
    /\ Loaded /\ last.position0 = FrameCount(data)
    /\ position = 0 /\ ~playing

\* C23: stop() and load_file() put position at 0 whatever it was; play(),
\* pause(), set_volume() and the render callback never take a position
\* p > 0 to 0, and pause() does not change position at all.  (The getters
\* are the state functions get_position, get_duration, is_playing and
\* get_current_file: they assign nothing.)
C23_OnlyStopAndLoadRewind ==
    [][/\ last'.op \in {"stop", "load_file"} => position' = 0
       /\ (last'.op \in {"play", "pause", "set_volume", "callback"}
              /\ position > 0) => position' > 0
       /\ last'.op = "pause" => position' = position]_vars

C23_Witness ==
    /\ last.op = "play" /\ ~last.playing0 /\ 0 < last.position0
    /\ Loaded /\ playing /\ position = last.position0

\* C25: seek(s) with no buffer loaded changes no session field and raises
\* nothing, for every s.
C25_SeekWithoutBuffer ==
    [][(last'.op = "seek" /\ ~Loaded) =>
          /\ session' = session
          /\ ~last'.raised]_vars

C25_Witness ==
    /\ last.op = "seek" /\ last.n > 0
    /\ ~Loaded /\ last.after_failed
    /\ playing /\ position = 0

\* the array sf.read returned for the file now loaded
Decoded == sf_read(Val(current_file)).data

\* C26: every buffer a successful load_file installs has exactly 2 channels,
\* whatever the channel count of the decoded file (1, 2 or more); for a mono
\* file each frame has equal left and right samples, the mono sample, and
\* there are as many frames as mono samples.
C26_InstalledBufferIsStereo ==
    Loaded =>
        /\ Val(data).ndim = 2
        /\ \A i \in 1..FrameCount(data) : Len(Val(data).rows[i]) = 2
        /\ Decoded.ndim = 1 =>
              /\ FrameCount(data) = Len(Decoded.rows)
              /\ \A i \in 1..FrameCount(data) :
                    Val(data).rows[i] = <<Decoded.rows[i][1], Decoded.rows[i][1]>>

(* -------------------- threads, lock and shutdown ----------------------- *)

\* the methods whose whole body is one `with self.lock:` block of plain
\* assignments
SimpleOps == {"play", "pause", "stop", "seek", "set_volume"}

\* arguments used under SpecLock
LockSeeks == {-1, 1, MaxSeek}
LockVolumes == {0, 1}
LockFrames == {1, MaxFrames}

\* inside load_file's critical section
InLoad(p) == p.ctl \in {"load_decode", "load_install"}

\* the getters whose value C24 is about
Getters == {"get_position", "get_duration"}

\* the control thread calls a method and arrives at its `with self.lock:`,
\* where it waits until it gets the lock
ctl_call ==
    /\ pc.ctl = "idle" /\ cleanups = 0
    /\ pc' = [pc EXCEPT !.ctl = "wait"]
    /\ UNCHANGED <<current_file, data, samplerate, position, playing, volume,
                   stream, outdata, last, halted, lock, device, closes,
                   cleanups>>

\* `with self.lock:` entered by the control thread for a simple method or a
\* getter
ctl_enter(op) ==
    /\ pc.ctl = "wait"
    /\ lock = "free"
    /\ lock' = "ctl"
    /\ pc' = [pc EXCEPT !.ctl = op]
    /\ UNCHANGED <<current_file, data, samplerate, position, playing, volume,
                   stream, outdata, last, halted, device, closes, cleanups>>

\* the body of a simple method, and the release of the lock at its end
ctl_body ==
    /\ pc.ctl \in SimpleOps /\ lock = "ctl"
    /\ CASE pc.ctl = "play" -> play
         [] pc.ctl = "pause" -> pause
         [] pc.ctl = "stop" -> stop
         [] pc.ctl = "seek" -> \E k \in LockSeeks : seek(k)
         [] pc.ctl = "set_volume" -> \E v \in LockVolumes : set_volume(v)
    /\ lock' = "free"
    /\ pc' = [pc EXCEPT !.ctl = "idle"]
    /\ UNCHANGED <<device, closes, cleanups>>

\* the body of a getter: the value (the state function of the same name) is
\* read and the lock released at the return; nothing is assigned
ctl_get ==
    /\ pc.ctl \in Getters /\ lock = "ctl"
    /\ last' = Op(pc.ctl, "", 0, TRUE, "", FALSE)
    /\ lock' = "free"
    /\ pc' = [pc EXCEPT !.ctl = "idle"]
    /\ UNCHANGED <<current_file, data, samplerate, position, playing, volume,
                   stream, outdata, halted, device, closes, cleanups>>

\* a method called after cleanup has set self.lock = None: `with self.lock:`
\* raises TypeError (AttributeError before Python 3.11) before the body runs
ctl_no_lock(op) ==
    /\ pc.ctl = "idle"
    /\ lock = "none"
    /\ last' = Op(op, "", 0, FALSE, "TypeError", TRUE)
    /\ UNCHANGED <<current_file, data, samplerate, position, playing, volume,
                   stream, outdata, halted, lock, pc, device, closes, cleanups>>

\* load_file(file_path), line 47: `with self.lock:` entered
load_enter(file_path) ==
    /\ pc.ctl = "wait"
    /\ lock = "free"
    /\ lock' = "ctl"
    /\ pc' = [pc EXCEPT !.ctl = "load_decode", !.file_path = file_path]
    /\ UNCHANGED <<current_file, data, samplerate, position, playing, volume,
                   stream, outdata, last, halted, device, closes, cleanups>>

\* lines 50-54: sf.read returns and data, samplerate are assigned; or it raises
\* and lines 59-64 run
load_decode ==
    LET r == sf_read(pc.file_path) IN
    /\ pc.ctl = "load_decode" /\ lock = "ctl"
    /\ IF r.ok
       THEN /\ data' = Some(installed(r))
            /\ samplerate' = Some(r.samplerate)
            /\ pc' = [pc EXCEPT !.ctl = "load_install"]
            /\ UNCHANGED <<current_file, position, last, lock>>
       ELSE /\ data' = None
            /\ samplerate' = None
            /\ current_file' = None
            /\ position' = 0
            /\ last' = Op("load_file", pc.file_path, 0, FALSE, r.err, FALSE)
            /\ lock' = "free"
            /\ pc' = [pc EXCEPT !.ctl = "idle", !.file_path = ""]
    /\ UNCHANGED <<playing, volume, stream, outdata, halted, device, closes,
                   cleanups>>

\* lines 56-58: current_file, position assigned, return and release
load_install ==
    /\ pc.ctl = "load_install" /\ lock = "ctl"
    /\ current_file' = Some(pc.file_path)
    /\ position' = 0
    /\ last' = Op("load_file", pc.file_path, 0, TRUE, "", FALSE)
    /\ lock' = "free"
    /\ pc' = [pc EXCEPT !.ctl = "idle", !.file_path = ""]
    /\ UNCHANGED <<data, samplerate, playing, volume, stream, outdata, halted,
                   device, closes, cleanups>>

\* the device invokes callback or finished_callback on the render thread,
\* which arrives at `with self.lock:`
rt_invoke(what) ==
    /\ stream
    /\ pc.rt = "idle"
    /\ pc' = [pc EXCEPT !.rt = what]
    /\ UNCHANGED <<current_file, data, samplerate, position, playing, volume,
                   stream, outdata, last, halted, lock, device, closes, cleanups>>

rt_enter_unlocked ==
    /\ pc.rt \in {"callback_wait", "finished_wait"}
    /\ lock' = "rt"
    /\ pc' = [pc EXCEPT !.rt = IF pc.rt = "callback_wait"
                                 THEN "callback" ELSE "finished"]
    /\ UNCHANGED <<current_file, data, samplerate, position, playing, volume,
                   stream, outdata, last, halted, device, closes, cleanups>>

\* lines 140 and 165: the render thread gets the lock
rt_enter ==
    /\ pc.rt \in {"callback_wait", "finished_wait"}
    /\ lock = "free"
    /\ lock' = "rt"
    /\ pc' = [pc EXCEPT !.rt = IF pc.rt = "callback_wait"
                                 THEN "callback" ELSE "finished"]
    /\ UNCHANGED <<current_file, data, samplerate, position, playing, volume,
                   stream, outdata, last, halted, device, closes, cleanups>>

\* the body of callback or finished_callback, and the release at its end
rt_body ==
    /\ pc.rt \in {"callback", "finished"} /\ lock = "rt"
    /\ IF pc.rt = "callback"
       THEN \E frames \in LockFrames : callback(frames)
       ELSE finished_callback
    /\ lock' = "free"
    /\ pc' = [pc EXCEPT !.rt = "idle"]
    /\ UNCHANGED <<device, closes, cleanups>>

\* cleanup, lines 171-175: stop and close the stream if the handle is set
\* (stream.stop() returns once no callback is running)
cleanup_stream ==
    /\ pc.ctl = "idle"
    /\ cleanups < MaxCleanups
    /\ stream => pc.rt = "idle"
    /\ cleanups' = cleanups + 1
    /\ pc' = [pc EXCEPT !.ctl = "cleanup"]
    /\ IF stream
       THEN stream' = FALSE /\ device' = "closed" /\ closes' = closes + 1
       ELSE UNCHANGED <<stream, device, closes>>
    /\ UNCHANGED <<current_file, data, samplerate, position, playing, volume,
                   outdata, last, halted, lock>>

\* cleanup that does not reset position and playing
cleanup_clear_keeps_transport ==
    /\ pc.ctl = "cleanup"
    /\ lock' = "none"
    /\ data' = None
    /\ samplerate' = None
    /\ current_file' = None
    /\ last' = Op("cleanup", "", 0, TRUE, "", FALSE)
    /\ pc' = [pc EXCEPT !.ctl = "idle"]
    /\ UNCHANGED <<position, playing, volume, stream, outdata, halted, device,
                   closes, cleanups>>

\* cleanup, lines 177-185: self.lock = None, then the session is cleared
cleanup_clear ==
    /\ pc.ctl = "cleanup"
    /\ lock' = "none"
    /\ data' = None
    /\ samplerate' = None
    /\ current_file' = None
    /\ position' = 0
    /\ playing' = FALSE
    /\ last' = Op("cleanup", "", 0, TRUE, "", FALSE)
    /\ pc' = [pc EXCEPT !.ctl = "idle"]
    /\ UNCHANGED <<volume, stream, outdata, halted, device, closes, cleanups>>

NextLock ==
    \/ ctl_call /\ UNCHANGED glue
    \/ (\E op \in SimpleOps \cup Getters : ctl_enter(op)) /\ UNCHANGED glue
    \/ ctl_body /\ UNCHANGED glue
    \/ ctl_get /\ UNCHANGED glue
    \/ (\E op \in SimpleOps \cup Getters \cup {"load_file"} : ctl_no_lock(op))
          /\ UNCHANGED glue
    \/ (\E file_path \in Paths : load_enter(file_path)) /\ UNCHANGED glue
    \/ load_decode /\ UNCHANGED glue
    \/ load_install /\ UNCHANGED glue
    \/ (\E what \in {"callback_wait", "finished_wait"} : rt_invoke(what))
          /\ UNCHANGED glue
    \/ rt_enter /\ UNCHANGED glue
    \/ rt_body /\ UNCHANGED glue
    \/ cleanup_stream /\ UNCHANGED glue
    \/ cleanup_clear /\ UNCHANGED glue

SpecLock == Init /\ [][NextLock]_vars

\* the control thread gets the lock it waits for
ctl_acquire ==
    \/ \E op \in SimpleOps \cup Getters : ctl_enter(op)
    \/ \E file_path \in Paths : load_enter(file_path)

\* SpecLockFair: every thread inside a `with self.lock:` block goes on to
\* the end of the block, and a thread that waits for the lock gets it if
\* the lock stays free; threading.Lock promises no turn to a waiting thread
\* when the other thread keeps taking the lock
SpecLockFair ==
    /\ SpecLock
    /\ WF_vars(ctl_body /\ UNCHANGED glue)
    /\ WF_vars(ctl_get /\ UNCHANGED glue)
    /\ WF_vars(load_decode /\ UNCHANGED glue)
    /\ WF_vars(load_install /\ UNCHANGED glue)
    /\ WF_vars(rt_body /\ UNCHANGED glue)
    /\ WF_vars(rt_enter /\ UNCHANGED glue)
    /\ WF_vars(ctl_acquire /\ UNCHANGED glue)

\* C15: load_file decodes before it takes the session lock and holds the lock
\* only to install the decoded buffer, so the render callback never waits for
\* the lock while a decode is running.
C15_DecodeOutsideLock ==
    /\ pc.ctl = "load_decode" => lock # "ctl"
    /\ ~(pc.ctl = "load_decode" /\ pc.rt = "callback_wait" /\ lock = "ctl")

\* the thread that takes the step
Writer == IF pc'.ctl # pc.ctl THEN "ctl" ELSE "rt"

\* C16: every write to a session field, by a control method, the callback, the
\* finished notification or cleanup, is made by a thread that holds the lock.
C16_WritesUnderLock ==
    [][session' # session => lock = Writer]_vars

\* buffer, sample rate and file name all come from one load (or all are None)
SnapshotWhole ==
    /\ (data = None) = (current_file = None)
    /\ (data = None) = (samplerate = None)
    /\ Loaded =>
         /\ Val(data) = installed(sf_read(Val(current_file)))
         /\ Val(samplerate) = sf_read(Val(current_file)).samplerate

\* C17: load is atomic for the render callback: while a callback is in its
\* critical section no load_file is half done, so the callback sees the
\* session as it was before the load or as it is after it.
C17_LoadAtomicForCallback ==
    pc.rt = "callback" => (~InLoad(pc) /\ SnapshotWhole)

C17_Witness ==
    /\ pc.rt = "callback" /\ pc.ctl = "idle" /\ lock = "rt"
    /\ last.op = "load_file" /\ last.ok /\ 0 < last.position0
    /\ Loaded /\ playing /\ position = 0

ShutDown == cleanups >= 1 /\ pc.ctl = "idle"

\* C18: a stream the constructor acquired is closed exactly once in every
\* execution: never twice, and after shutdown (also when start() failed in
\* the constructor) it has been closed.
C18_StreamClosedExactlyOnce ==
    /\ closes <= 1
    /\ (ShutDown /\ device # "none") => (device = "closed" /\ closes = 1)

ControlOps == {"load_file", "play", "pause", "stop", "seek", "set_volume"}

\* the session a control method leaves behind, as a function of the session it
\* starts from and its argument alone (the output stream plays no part):
\* <<current_file, data, samplerate, position, playing, volume>>
Effect(op, path, n) ==
    CASE op = "load_file" ->
           IF sf_read(path).ok
           THEN <<Some(path), Some(installed(sf_read(path))),
                  Some(sf_read(path).samplerate), 0, playing, volume>>
           ELSE <<None, None, None, 0, playing, volume>>
      [] op = "play" ->
           <<current_file, data, samplerate, position, Loaded \/ playing, volume>>
      [] op = "pause" ->
           <<current_file, data, samplerate, position, FALSE, volume>>
      [] op = "stop" ->
           <<current_file, data, samplerate, 0, FALSE, volume>>
      [] op = "seek" ->
           <<current_file, data, samplerate,
             IF Loaded THEN Min(PyInt(n * Val(samplerate), SeekDen), FrameCount(data))
             ELSE position,
             playing, volume>>
      [] op = "set_volume" ->
           <<current_file, data, samplerate, position, playing, Clamp(n, 0, VolDen)>>

\* C19: when the output stream cannot be opened the constructor still
\* completes without raising, in audio_player.py and in the copy in
\* src/main.py, and every control method then completes without error with
\* the effect on the session it has with a working device.
C19_ControlApiWithoutDevice ==
    /\ [](last.op = "init" => ~last.raised)
    /\ [](~twin.raised)
    /\ [][last'.op \in ControlOps =>
             /\ ~last'.raised
             /\ session' = Effect(last'.op, last'.path, last'.n)
             /\ stream' = stream]_vars

\* C20: a decode failure never leaves load_file as an exception: it returns
\* (False, reason), and the engine goes on: the load_file of a decodable file
\* that follows failed loads succeeds and installs buffer, sample rate, file
\* and position 0 as a first successful load does, with playing and volume as
\* they were before the failed load.
C20_FailedLoadContinuable ==
    [][/\ (last'.op = "load_file" /\ ~sf_read(last'.path).ok) =>
             /\ ~last'.raised
             /\ ~last'.ok
             /\ last'.err = sf_read(last'.path).err /\ last'.err # ""
             /\ UNCHANGED <<playing, volume>>
       /\ (last.op = "load_file" /\ ~last.ok
             /\ last'.op = "load_file" /\ sf_read(last'.path).ok) =>
             /\ last'.ok /\ ~last'.raised
             /\ current_file' = Some(last'.path)
             /\ data' = Some(installed(sf_read(last'.path)))
             /\ samplerate' = Some(sf_read(last'.path).samplerate)
             /\ position' = 0
             /\ playing' = last.playing0
             /\ volume' = volume]_vars

C20_Witness ==
    /\ last.op = "load_file" /\ last.ok /\ last.after_failed
    /\ Loaded /\ position = 0 /\ current_file = Some(last.path)
    /\ get_duration = <<FrameCount(data), Val(samplerate)>>

\* C24: get_position() returns position / sample_rate and get_duration()
\* returns frame_count / sample_rate when a buffer is loaded; with no buffer
\* loaded (initially, after a failed first load, after cleanup) both return 0
\* and raise nothing.
C24_GettersDefined ==
    [][(last' # last /\ last'.op \in Getters) =>
          /\ ~last'.raised
          /\ IF Loaded
             THEN /\ get_position' = <<position, Val(samplerate)>>
                  /\ get_duration' = <<FrameCount(data), Val(samplerate)>>
             ELSE /\ get_position' = <<0, 1>>
                  /\ get_duration' = <<0, 1>>]_vars

\* a step of a cleanup() that is not the first one
RepeatedCleanupStep ==
    \/ cleanups >= 1 /\ pc.ctl = "idle" /\ pc'.ctl = "cleanup"
    \/ cleanups >= 2 /\ pc.ctl = "cleanup"

\* C38: cleanup may be repeated: no call of it raises, after the first call
\* the session is empty (no buffer, no sample rate, no current file, position
\* 0, playing false) and the stream handle is cleared, and a further call
\* changes nothing.
C38_CleanupRepeatable ==
    /\ [](ShutDown => /\ data = None /\ samplerate = None
                      /\ current_file = None
                      /\ position = 0 /\ ~playing
                      /\ ~stream)
    /\ [][(last' # last /\ last'.op = "cleanup") => ~last'.raised]_vars
    /\ [][RepeatedCleanupStep =>
             UNCHANGED <<session, stream, lock, device, closes>>]_vars

\* the second cleanup has returned, after audio was played and the stream
\* closed by the first
C38_Witness ==
    /\ cleanups = 2 /\ pc.ctl = "idle"
    /\ last.op = "cleanup"
    /\ closes = 1 /\ lock = "none"
    /\ outdata # <<>> /\ outdata[1] \notin {Silence, Unwritten}

\* the control thread, and the render thread, inside a `with self.lock:` block
InControlSection(p) ==
    p.ctl \in SimpleOps \cup Getters \cup {"load_decode", "load_install"}
InRenderSection(p) == p.rt \in {"callback", "finished"}

\* a thread has arrived at a `with self.lock:` and waits for the lock
ctl_waiting == pc.ctl = "wait"
rt_waiting == pc.rt \in {"callback_wait", "finished_wait"}

\* C32: the lock is released on every exit path of every operation that
\* takes it: it is held exactly while a thread is inside a `with` block, so
\* it is free once the operations have completed; the control thread and the
\* render thread are never both inside one; and neither blocks forever on
\* the lock: a held lock is released, and a thread that waits for the lock
\* gets it.
C32_LockAlwaysReleased ==
    /\ [](/\ (lock = "ctl") = InControlSection(pc)
          /\ (lock = "rt") = InRenderSection(pc)
          /\ ~(InControlSection(pc) /\ InRenderSection(pc)))
    /\ (lock = "ctl") ~> (lock # "ctl")
    /\ (lock = "rt") ~> (lock # "rt")
    /\ rt_waiting ~> InRenderSection(pc)
    /\ ctl_waiting ~> InControlSection(pc)

(* ------------------------------ strings -------------------------------- *)

\* A Python str is the tuple of its characters.

\* all strings over chars of length lo..hi
Strings(chars, lo, hi) == UNION {[1..n -> chars] : n \in lo..hi}

\* str.lower() of one character (of the characters the model uses)
lower_char(c) == CASE c = "A" -> "a" [] c = "B" -> "b" [] OTHER -> c

\* s.lower()
str_lower(s) == [i \in 1..Len(s) |-> lower_char(s[i])]

isspace(c) == c = " "

\* s.split(): the maximal runs of non-whitespace characters, in order
RECURSIVE split_from(_, _, _)
split_from(s, i, word) ==
    LET done == IF word = <<>> THEN <<>> ELSE <<word>> IN
    IF i > Len(s) THEN done
    ELSE IF isspace(s[i]) THEN done \o split_from(s, i + 1, <<>>)
    ELSE split_from(s, i + 1, Append(word, s[i]))

str_split(s) == split_from(s, 1, <<>>)

\* SQLite's `s LIKE pattern`: % is any run of characters, _ any one character,
\* letters compare without regard to case
RECURSIVE like(_, _)
like(s, pattern) ==
    IF pattern = <<>> THEN s = <<>>
    ELSE IF Head(pattern) = "%"
    THEN like(s, Tail(pattern)) \/ (s # <<>> /\ like(Tail(s), pattern))
    ELSE /\ s # <<>>
         /\ Head(pattern) = "_" \/ lower_char(Head(pattern)) = lower_char(Head(s))
         /\ like(Tail(s), Tail(pattern))

\* the rows of a SELECT DISTINCT: each row once, at its first place
RECURSIVE distinct(_)
distinct(rows) ==
    IF rows = <<>> THEN <<>>
    ELSE LET front == distinct(SubSeq(rows, 1, Len(rows) - 1))
             r == rows[Len(rows)]
         IN  IF \E i \in 1..Len(front) : front[i] = r THEN front
             ELSE Append(front, r)

\* the concatenation of a sequence of sequences
RECURSIVE flatten(_)
flatten(seqs) == IF seqs = <<>> THEN <<>> ELSE Head(seqs) \o flatten(Tail(seqs))

\* ORDER BY timestamp DESC: the rows of the latest second first; rows of one
\* second stay in the order the scan found them
RECURSIVE order_by_timestamp_desc(_)
order_by_timestamp_desc(rows) ==
    IF rows = <<>> THEN <<>>
    ELSE LET top == CHOOSE s \in {rows[i].timestamp : i \in 1..Len(rows)} :
                       \A i \in 1..Len(rows) : rows[i].timestamp <= s
         IN  SelectSeq(rows, LAMBDA r : r.timestamp = top)
                \o order_by_timestamp_desc(
                       SelectSeq(rows, LAMBDA r : r.timestamp # top))

(* --------------------------- transcript store --------------------------- *)

\* longest transcript, and longest query given to the store
MaxText == 3

\* the characters of transcripts, and of queries
TextChars == {"a", "A", " "}
QueryChars == {"a", "A", " ", "_"}

Texts == Strings(TextChars, 0, MaxText)
Queries == Strings(QueryChars, 0, MaxText)

\* the directory MainWindow lists, and the file of it named base + ext (no
\* dot in base) as a pathlib Path, with its stem and suffix: a name that is
\* nothing but the extension has that as its stem and no suffix
AudioDir == "rec"
Mp3 == <<".", "m", "p", "3">>
File(base, ext) ==
    [dir |-> AudioDir,
     stem |-> IF base = <<>> THEN ext ELSE base,
     suffix |-> IF base = <<>> THEN <<>> ELSE ext]

FileA == File(<<"2", "4", "0", "1", "0", "1", "_", "1", "2", "3", "0">>, Mp3)
FileB == File(<<"2", "4", "0", "2", "2", "9", "_", "0", "9", "0", "0">>, Mp3)
\* a file whose name is no timestamp
FileNotes == File(<<"n", "o", "t", "e", "s">>, Mp3)
\* a file of the directory that gets deleted: os.path.getmtime raises on it
\* from then on
FileGone == File(<<"2", "3", "1", "2", "3", "1", "_", "2", "3", "5", "9">>, Mp3)

\* the files of the directory in the order Path.glob yields them
DirWithout == <<FileA, FileB, FileNotes>>
DirListing == IF deleted THEN DirWithout ELSE DirWithout \o <<FileGone>>
DirFiles == {DirListing[i] : i \in 1..Len(DirListing)}
StorePaths == {FileA, FileB, FileGone}

\* os.path.getmtime(file_path) returns
getmtime_ok(file_path) == file_path \in DirFiles

\* SELECT transcript FROM table WHERE file_path = ? AND status = 'completed',
\* fetchone(): the transcript of the completed row, or None
select_transcript(table, file_path) ==
    LET found == SelectSeq(table, LAMBDA r : r.file_path = file_path
                                               /\ r.status = "completed")
    IN  IF found = <<>> THEN None ELSE Some(found[1].transcript)

\* get_transcription(file_path)
get_transcription(file_path) == select_transcript(transcriptions, file_path)

\* the last call of a Database method: its arguments, what it returned (text
\* of get_transcription, rows of search_transcripts), whether it raised, and
\* for add_transcription the transcript it stored and whether file_path had a
\* row before
DbOp(name, file_path, query, text, rows, raised) ==
    [op |-> name, file_path |-> file_path, query |-> query, text |-> text,
     rows |-> rows, raised |-> raised,
     replaced |-> /\ name = "add_transcription" /\ ~raised
                  /\ get_transcription(Val(file_path)) # None]

\* CURRENT_TIMESTAMP, the default of the timestamp column, has a resolution
\* of one second: the second of the latest row of the table, or with tick the
\* one after it
latest_second(table) ==
    IF table = <<>> THEN 0
    ELSE CHOOSE s \in {table[i].timestamp : i \in 1..Len(table)} :
            \A i \in 1..Len(table) : table[i].timestamp <= s

CURRENT_TIMESTAMP(table, tick) ==
    latest_second(table) + (IF tick THEN 1 ELSE 0)

\* timestamps are only compared with each other (ORDER BY): a row keeps the
\* number of its second among the seconds of the rows in the table
seconds_counted(table) ==
    [i \in 1..Len(table) |->
        [table[i] EXCEPT !.timestamp =
            Cardinality({table[j].timestamp : j \in 1..Len(table)}
                            \cap 0..table[i].timestamp)]]

\* the search_index rows add_transcription inserts for a transcript
index_rows(file_path, transcript) ==
    LET words == str_split(str_lower(transcript)) IN
    [pos \in 1..Len(words) |->
        [file_path |-> file_path, word |-> words[pos], position |-> pos - 1]]

\* add_transcription with INSERT in place of INSERT OR REPLACE and no DELETE
add_transcription_keeps_old(file_path, transcript, tick) ==
    /\ IF getmtime_ok(file_path)
       THEN /\ transcriptions' =
                 seconds_counted(
                    Append(transcriptions,
                           [file_path |-> file_path, transcript |-> transcript,
                            timestamp |-> CURRENT_TIMESTAMP(transcriptions, tick),
                            status |-> "completed"]))
            /\ search_index' = search_index \o index_rows(file_path, transcript)
            /\ db_last' = DbOp("add_transcription", Some(file_path), None,
                               Some(transcript), <<>>, FALSE)
       ELSE /\ db_last' = DbOp("add_transcription", Some(file_path), None,
                               None, <<>>, TRUE)
            /\ UNCHANGED <<transcriptions, search_index>>

\* add_transcription without the DELETE FROM search_index
add_transcription_keeps_index(file_path, transcript, tick) ==
    /\ IF getmtime_ok(file_path)
       THEN /\ transcriptions' =
                 seconds_counted(
                    Append(SelectSeq(transcriptions,
                                     LAMBDA r : r.file_path # file_path),
                           [file_path |-> file_path, transcript |-> transcript,
                            timestamp |-> CURRENT_TIMESTAMP(transcriptions, tick),
                            status |-> "completed"]))
            /\ search_index' = search_index \o index_rows(file_path, transcript)
            /\ db_last' = DbOp("add_transcription", Some(file_path), None,
                               Some(transcript), <<>>, FALSE)
       ELSE /\ db_last' = DbOp("add_transcription", Some(file_path), None,
                               None, <<>>, TRUE)
            /\ UNCHANGED <<transcriptions, search_index>>

\* add_transcription(file_path, transcript); tick: the clock has reached a
\* new second since the latest row was written. The row of file_path is
\* replaced (REPLACE deletes it and inserts the new row at the end of the
\* table, with the timestamp of now) and so are its index rows; when
\* getmtime raises nothing is written and the exception is raised again
add_transcription(file_path, transcript, tick) ==
    /\ IF getmtime_ok(file_path)
       THEN /\ transcriptions' =
                 seconds_counted(
                    Append(SelectSeq(transcriptions,
                                     LAMBDA r : r.file_path # file_path),
                           [file_path |-> file_path, transcript |-> transcript,
                            timestamp |-> CURRENT_TIMESTAMP(transcriptions, tick),
                            status |-> "completed"]))
            /\ search_index' =
                 SelectSeq(search_index, LAMBDA r : r.file_path # file_path)
                    \o index_rows(file_path, transcript)
            /\ db_last' = DbOp("add_transcription", Some(file_path), None,
                               Some(transcript), <<>>, FALSE)
       ELSE /\ db_last' = DbOp("add_transcription", Some(file_path), None,
                               None, <<>>, TRUE)
            /\ UNCHANGED <<transcriptions, search_index>>

\* search_transcripts(query): transcriptions joined with search_index on
\* file_path, where the word is LIKE %query.lower()%, DISTINCT, ordered by
\* timestamp, latest first. SQLite scans search_index and looks up the
\* transcriptions row of each: both tables hold a path's rows where its
\* latest add_transcription put them, so rows of one second come out in the
\* order of their adds
search_transcripts(query) ==
    LET pattern == <<"%">> \o str_lower(query) \o <<"%">>
        hits(t) == SelectSeq(search_index,
                             LAMBDA si : si.file_path = t.file_path
                                           /\ like(si.word, pattern))
        completed == SelectSeq(transcriptions,
                               LAMBDA t : t.status = "completed")
        scanned == distinct(flatten([i \in 1..Len(completed) |->
                                        [j \in 1..Len(hits(completed[i])) |->
                                            completed[i]]]))
        ordered == order_by_timestamp_desc(scanned)
    IN  [i \in 1..Len(ordered) |->
            <<ordered[i].file_path, ordered[i].transcript>>]

\* add_transcription as a step of the store; get_transcription and
\* search_transcripts write nothing and are the state functions above
db_add(file_path, transcript, tick) ==
    /\ add_transcription(file_path, transcript, tick)
    /\ UNCHANGED <<audio, panel, window, names, disk>>

\* the application starts with a working output device
InitApp == Init /\ stream

\* the second file gets the transcripts two characters shorter; on a deleted
\* file the call raises before it looks at the transcript
NextStore ==
    \/ \E transcript \in Texts, tick \in BOOLEAN :
          db_add(FileA, transcript, tick)
    \/ \E transcript \in Strings(TextChars, 0, MaxText - 2), tick \in BOOLEAN :
          db_add(FileB, transcript, tick)
    \/ \E transcript \in Strings(TextChars, 0, 1), tick \in BOOLEAN :
          db_add(FileGone, transcript, tick)

SpecStore == InitApp /\ [][NextStore]_vars

\* sub occurs in s as a run of adjacent characters
Contains(s, sub) ==
    \E i \in 0..(Len(s) - Len(sub)) : SubSeq(s, i + 1, i + Len(sub)) = sub

Elements(rows) == {rows[i] : i \in 1..Len(rows)}

\* the stored (path, text) pairs whose transcript contains query, letters
\* compared without regard to case
Matching(query) ==
    {<<t.file_path, t.transcript>> : t \in
        {t \in Elements(transcriptions) :
            Contains(str_lower(t.transcript), str_lower(query))}}

\* C27: search(query) returns exactly the stored (path, text) pairs whose
\* transcript contains query as a case-insensitive substring, also when the
\* query contains a space and spans two words, and no path twice.
C27_SearchFindsSubstrings ==
    \A query \in Queries :
        LET rows == search_transcripts(query) IN
        /\ Elements(rows) = Matching(query)
        /\ \A i, j \in 1..Len(rows) : rows[i][1] = rows[j][1] => i = j

RowsOf(file_path) ==
    {i \in 1..Len(transcriptions) : transcriptions[i].file_path = file_path}

\* C29: after add(path, text) succeeds get(path) returns text; a later add
\* for the same path replaces it; there is never more than one row per path;
\* get of a path never added returns nothing (no get is anything but None at
\* the start, and a get changes only by a successful add for its path).
C29_StoreRoundTrip ==
    /\ \A file_path \in StorePaths : get_transcription(file_path) = None
    /\ [](\A file_path \in StorePaths : Cardinality(RowsOf(file_path)) <= 1)
    /\ [][\A file_path \in StorePaths :
             /\ (db_last'.op = "add_transcription" /\ ~db_last'.raised
                    /\ db_last'.file_path = Some(file_path)) =>
                   /\ get_transcription(file_path)' = db_last'.text
                   /\ Cardinality(RowsOf(file_path)') = 1
             /\ get_transcription(file_path)' # get_transcription(file_path) =>
                   /\ db_last'.op = "add_transcription" /\ ~db_last'.raised
                   /\ db_last'.file_path = Some(file_path)]_vars

C29_Witness ==
    /\ db_last.op = "add_transcription" /\ db_last.replaced
    /\ db_last.file_path = Some(FileA)
    /\ get_transcription(FileA) = Some(<<"a", " ", "A">>)
    /\ get_transcription(FileB) # None
    /\ get_transcription(FileGone) = None

\* the search_index rows of file_path, in the order of the table
IndexOf(file_path) ==
    SelectSeq(search_index, LAMBDA r : r.file_path = file_path)

\* C37: for every path the search_index rows are exactly the lower-cased,
\* whitespace-separated words of the path's current transcript at positions
\* 0..n-1, each once: no row is left from a replaced transcript and a path
\* without a transcript row has no index rows.
C37_IndexMatchesTranscripts ==
    \A file_path \in StorePaths :
        LET stored == get_transcription(file_path)
            words == str_split(str_lower(Val(stored)))
        IN  IF stored = None
            THEN IndexOf(file_path) = <<>>
            ELSE /\ Len(IndexOf(file_path)) = Len(words)
                 /\ \A n \in 1..Len(words) :
                       /\ IndexOf(file_path)[n].word = words[n]
                       /\ IndexOf(file_path)[n].position = n - 1
                 /\ \A n \in 1..Len(words) :
                       /\ words[n] # <<>>
                       /\ \A k \in 1..Len(words[n]) :
                             words[n][k] \notin {" ", "A"}

\* a transcript of two words has replaced an earlier one, and both files
\* have a transcript
C37_Witness ==
    /\ db_last.op = "add_transcription" /\ db_last.replaced
    /\ db_last.file_path = Some(FileB)
    /\ Len(IndexOf(FileB)) = 1
    /\ Len(IndexOf(FileA)) = 2
    /\ get_transcription(FileA) = Some(<<"A", " ", "a">>)

(* ------------------------ file name timestamps ------------------------- *)

Digits == {"0", "1", "2", "3", "4", "5", "6", "7", "8", "9"}

digit_value(c) ==
    CASE c = "0" -> 0 [] c = "1" -> 1 [] c = "2" -> 2 [] c = "3" -> 3
      [] c = "4" -> 4 [] c = "5" -> 5 [] c = "6" -> 6 [] c = "7" -> 7
      [] c = "8" -> 8 [] c = "9" -> 9

\* the number a string of decimal digits denotes
RECURSIVE digits_value(_)
digits_value(ds) ==
    IF ds = <<>> THEN 0
    ELSE 10 * digits_value(SubSeq(ds, 1, Len(ds) - 1)) + digit_value(ds[Len(ds)])

\* s.strip()
str_strip(s) ==
    LET kept == {i \in 1..Len(s) : ~isspace(s[i])} IN
    IF kept = {} THEN <<>>
    ELSE SubSeq(s, CHOOSE i \in kept : \A j \in kept : i <= j,
                   CHOOSE i \in kept : \A j \in kept : j <= i)

\* int(s) of a Python str: whitespace around it is dropped, one sign may
\* lead, and the rest is decimal digits with single underscores between
\* them; anything else is a ValueError (None)
py_int(s) ==
    LET t == str_strip(s)
        signed == t # <<>> /\ t[1] \in {"+", "-"}
        body == IF signed THEN Tail(t) ELSE t
        ok == /\ body # <<>>
              /\ \A i \in 1..Len(body) : body[i] \in Digits \cup {"_"}
              /\ body[1] \in Digits /\ body[Len(body)] \in Digits
              /\ \A i \in 1..(Len(body) - 1) : ~(body[i] = "_" /\ body[i + 1] = "_")
        value == digits_value(SelectSeq(body, LAMBDA c : c \in Digits))
    IN  IF ~ok THEN None
        ELSE IF signed /\ t[1] = "-" THEN Some(-value) ELSE Some(value)

days_in_month(year, month) ==
    IF month \in {4, 6, 9, 11} THEN 30
    ELSE IF month # 2 THEN 31
    ELSE IF year % 4 = 0 /\ (year % 100 # 0 \/ year % 400 = 0) THEN 29 ELSE 28

\* datetime(year, month, day, hour, minute) does not raise ValueError
datetime_ok(year, month, day, hour, minute) ==
    /\ 1 <= year /\ year <= 9999
    /\ 1 <= month /\ month <= 12
    /\ 1 <= day /\ day <= days_in_month(year, month)
    /\ 0 <= hour /\ hour <= 23
    /\ 0 <= minute /\ minute <= 59

\* parse_audio_filename(filename): the datetime as <<year, month, day, hour,
\* minute>>, or None
parse_audio_filename(name) ==
    LET date_str == PySlice(name, 0, 6)
        time_str == PySlice(name, 7, 11)
        year == py_int(<<"2", "0">> \o PySlice(date_str, 0, 2))
        month == py_int(PySlice(date_str, 2, 4))
        day == py_int(PySlice(date_str, 4, 6))
        hour == py_int(PySlice(time_str, 0, 2))
        minute == py_int(PySlice(time_str, 2, 4))
    IN  IF None \in {year, month, day, hour, minute} THEN None
        ELSE IF datetime_ok(Val(year), Val(month), Val(day), Val(hour), Val(minute))
        THEN Some(<<Val(year), Val(month), Val(day), Val(hour), Val(minute)>>)
        ELSE None

\* the order of two datetimes: a number that grows with the datetime
datetime_key(t) == (((t[1] * 12 + t[2]) * 31 + t[3]) * 24 + t[4]) * 60 + t[5]

\* sorted(entries, key=timestamp, reverse=True): the sort is stable, entries
\* of one timestamp keep their order
RECURSIVE sorted_latest_first(_)
sorted_latest_first(entries) ==
    IF entries = <<>> THEN <<>>
    ELSE LET top == CHOOSE k \in {datetime_key(entries[i].timestamp) :
                                     i \in 1..Len(entries)} :
                       \A i \in 1..Len(entries) :
                          datetime_key(entries[i].timestamp) <= k
         IN  SelectSeq(entries, LAMBDA e : datetime_key(e.timestamp) = top)
                \o sorted_latest_first(
                       SelectSeq(entries,
                                 LAMBDA e : datetime_key(e.timestamp) # top))

\* the file's name matches the pattern '*.mp3'
glob_mp3(f) ==
    LET name == f.stem \o f.suffix IN
    Len(name) >= Len(Mp3) /\ SubSeq(name, Len(name) - Len(Mp3) + 1, Len(name)) = Mp3

\* get_audio_files(directory) for a directory whose files glob yields in the
\* order of dir_files: the *.mp3 files whose stem parses, latest first
get_audio_files(dir_files) ==
    LET parsed == [i \in 1..Len(dir_files) |->
                      [path |-> dir_files[i],
                       timestamp |-> parse_audio_filename(dir_files[i].stem)]]
        kept == SelectSeq(parsed, LAMBDA e : glob_mp3(e.path)
                                                /\ e.timestamp # None)
    IN  sorted_latest_first([i \in 1..Len(kept) |->
                                [path |-> kept[i].path,
                                 timestamp |-> Val(kept[i].timestamp)]])

\* file names: two names that parse, each with one character replaced, cut
\* short, or with one character appended
NameChars == {"0", "3", "9", "_", "-", "x", "+", " "}
BaseStems == {FileA.stem, FileB.stem}
Edits(stem) ==
    {[stem EXCEPT ![i] = c] : i \in 1..Len(stem), c \in NameChars}
        \cup {SubSeq(stem, 1, n) : n \in 0..Len(stem)}
        \cup {Append(stem, c) : c \in NameChars}
Stems == UNION {Edits(stem) : stem \in BaseStems}

\* a directory that holds the one file stem + ".mp3" is listed: filename
\* is the file.stem get_audio_files hands to the parser
scan(stem) ==
    /\ filename' = File(stem, Mp3).stem
    /\ timestamp' = parse_audio_filename(File(stem, Mp3).stem)
    /\ files' = get_audio_files(<<File(stem, Mp3)>>)
    /\ UNCHANGED <<audio, panel, store, window, disk>>

NextNames == \E stem \in Stems : scan(stem)

SpecNames == InitApp /\ [][NextNames]_vars

Letters == {"x", "n", "o", "t", "e", "s", "a", "A"}

\* YYMMDD_HHMM: six digits, one separator character, four digits, that name
\* a date and time of the years 2000..2099
WellFormed(name) ==
    /\ Len(name) = 11
    /\ \A i \in (1..6) \cup (8..11) : name[i] \in Digits
    /\ name[7] \notin Digits \cup Letters
    /\ datetime_ok(2000 + digits_value(SubSeq(name, 1, 2)),
                   digits_value(SubSeq(name, 3, 4)),
                   digits_value(SubSeq(name, 5, 6)),
                   digits_value(SubSeq(name, 8, 9)),
                   digits_value(SubSeq(name, 10, 11)))

\* C28: a file name decodes to a timestamp if and only if it has the shape
\* YYMMDD_HHMM and names a valid date and time; a name of any other shape
\* gives no timestamp and its file is left out of get_audio_files.
C28_TimestampIffPattern ==
    /\ (timestamp # None) = WellFormed(filename)
    /\ (files # <<>>) = WellFormed(filename)

(* ------------------------------ search box ------------------------------ *)

\* MainWindow.search_transcripts searches from this many characters on
MinQueryLen == 3
\* characters of a transcript shown in a result item
PreviewLen == 100

\* what the transcription worker returns, and what is typed in the search box
UITexts == {<<"a", "a", "b">>, <<"b", "b">>}
UIQueries == Strings({"a", "b"}, 0, MaxText)

UiOp(name, query) == [op |-> name, query |-> query]

\* The tree is the sequence of its file items (the year, month and day nodes
\* refresh_files groups them under are left out): data is the item's
\* UserRole path, blue its foreground, preview the second column of a result.

\* get_audio_files(self.directory), after (gone) and before FileGone is
\* deleted
listings ==
    [gone \in BOOLEAN |->
        get_audio_files(IF gone THEN DirWithout
                                ELSE DirWithout \o <<FileGone>>)]
listed == listings[deleted]

\* the items refresh_files builds for the directory, with the transcriptions
\* table as it is when refresh_files runs
file_items_with(table) ==
    LET item(file) ==
            [data |-> file.path, kind |-> "file", preview |-> <<>>,
             blue |-> select_transcript(table, file.path)
                         \notin {None, Some(<<>>)}]
        items(audio_files) ==
            [i \in 1..Len(audio_files) |-> item(audio_files[i])]
    IN  items(listed)

file_items == file_items_with(transcriptions)

\* the items search_transcripts builds for the rows the store returned
result_items(rows) ==
    [i \in 1..Len(rows) |->
        [data |-> rows[i][1], kind |-> "result",
         preview |-> PySlice(rows[i][2], 0, PreviewLen) \o <<".", ".", ".">>,
         blue |-> TRUE]]

\* the GUI thread runs one handler at a time, and none once the window is
\* closed
gui_idle == gui.at = "idle"

\* the event loop delivers timer events and queued signals: between two
\* handlers, and inside the context menu and the question dialog of
\* closeEvent, which run an event loop of their own
dispatching == gui.at \in {"idle", "menu", "asking"}

\* the UserRole data of the items the tree shows: of its file and result
\* items, and of the year, month and day nodes above the file items
clickable ==
    {Some(tree[i].data) : i \in 1..Len(tree)}
       \cup {None : i \in {j \in 1..Len(tree) : tree[j].kind = "file"}}

\* an item of the tree is clicked: it becomes tree.currentItem(). file_path
\* is its UserRole data: a year, month or day node has none and the handler
\* returns at once; for a file item on_item_selected only shows the
\* transcript
on_item_selected(file_path) ==
    /\ gui_idle
    /\ widgets' = [widgets EXCEPT !.current_item = file_path]
    /\ UNCHANGED <<player, store, window, names, disk, watch, copy, helpers,
                   gui>>

\* self.tree.clear() removes every item, the current item with them
tree_clear(w) == [w EXCEPT !.current_item = None]

\* refresh_files(): nothing at all without a directory
refresh_files ==
    /\ dispatching
    /\ tree' = IF directory = None THEN tree ELSE file_items
    /\ widgets' = IF directory = None THEN widgets ELSE tree_clear(widgets)
    /\ ui_last' = UiOp("refresh_files", <<>>)
    /\ UNCHANGED <<directory, settings, store, audio, helpers, gui, names,
                   disk>>

\* select_directory(), a directory chosen in the dialog
select_directory ==
    /\ gui_idle
    /\ directory' = Some(AudioDir)
    /\ settings' = Some(AudioDir)
    /\ tree' = file_items
    /\ widgets' = tree_clear(widgets)
    /\ ui_last' = UiOp("select_directory", <<>>)
    /\ UNCHANGED <<store, audio, helpers, gui, names, disk>>

\* on_transcription_complete(file_path, transcript), the slot of a worker's
\* finished signal: the transcript is stored, the progress bar hidden, the
\* button enabled and the tree refreshed; if add_transcription raises the
\* handler ends there and the exception leaves the slot
on_transcription_complete(file_path, transcript, tick) ==
    /\ dispatching
    /\ add_transcription(file_path, transcript, tick)
    /\ widgets' = IF ~getmtime_ok(file_path) THEN widgets
                  ELSE LET shown == [widgets EXCEPT !.progress = FALSE,
                                                    !.transcribe_button = TRUE]
                       IN  IF directory = None THEN shown ELSE tree_clear(shown)
    /\ tree' = IF getmtime_ok(file_path) /\ directory # None
               THEN file_items_with(transcriptions') ELSE tree
    /\ ui_last' = UiOp("on_transcription_complete", <<>>)
    /\ gui' = IF getmtime_ok(file_path) THEN gui
              ELSE [gui EXCEPT !.at = "aborted"]
    /\ UNCHANGED <<directory, settings, audio, names, disk>>

\* MainWindow.search_transcripts(query), the search box's textChanged
ui_search_transcripts(query) ==
    /\ gui_idle
    /\ ui_last' = UiOp("search_transcripts", query)
    /\ IF Len(query) < MinQueryLen
       THEN /\ tree' = IF directory = None THEN tree ELSE file_items
            /\ widgets' = IF directory = None THEN widgets
                          ELSE tree_clear(widgets)
            /\ UNCHANGED db_last
       ELSE /\ db_last' = DbOp("search_transcripts", None, Some(query), None,
                               search_transcripts(query), FALSE)
            /\ tree' = result_items(search_transcripts(query))
            /\ widgets' = tree_clear(widgets)
    /\ UNCHANGED <<transcriptions, search_index, directory, settings,
                   audio, helpers, gui, names, disk>>

\* the application is closed and started again, with a working output
\* device as before. The store and the saved settings are kept; the window,
\* its player, its model and its workers are new, and restore_settings takes
\* the saved directory if it still exists
relaunch(dir_exists) ==
    LET restored == settings # None /\ dir_exists IN
    /\ directory' = IF restored THEN settings ELSE None
    /\ tree' = IF restored THEN file_items ELSE <<>>
    /\ ui_last' = UiOp("restore_settings", <<>>)
    /\ widgets' = [play_button |-> "Play", current_item |-> None,
                   transcribe_button |-> TRUE, progress |-> FALSE]
    /\ helpers' = [model |-> None, workers |-> <<>>, read_model |-> "unread",
                   queued |-> <<>>, current |-> FALSE]
    /\ gui' = [at |-> "idle", seek |-> 0]
    /\ current_file' = None
    /\ data' = None
    /\ samplerate' = None
    /\ position' = 0
    /\ playing' = FALSE
    /\ volume' = VolDen
    /\ stream' = TRUE
    /\ device' = "open"
    /\ lock' = "free"
    /\ pc' = [ctl |-> "idle", rt |-> "idle", file_path |-> ""]
    /\ closes' = 0
    /\ cleanups' = 0
    /\ outdata' = <<>>
    /\ last' = [op |-> "init", path |-> "", n |-> 0, ok |-> TRUE, err |-> "",
                raised |-> FALSE, playing0 |-> FALSE, position0 |-> 0,
                after_failed |-> FALSE]
    /\ halted' = FALSE
    /\ run' = [phase |-> "setup", start |-> 0, emitted |-> <<>>,
               state |-> "active"]
    /\ UNCHANGED <<store, settings, names, disk, copy>>

\* the finished signal is that of a worker started earlier, for an item of
\* the tree as it was then; the items clicked are those the tree shows
NextSearch ==
    \/ refresh_files
    \/ select_directory
    \/ \E file_path \in StorePaths, transcript \in UITexts, tick \in BOOLEAN :
          on_transcription_complete(file_path, transcript, tick)
             /\ UNCHANGED helpers
    \/ \E query \in UIQueries : ui_search_transcripts(query)
    \/ \E dir_exists \in BOOLEAN : relaunch(dir_exists)
    \/ \E file_path \in clickable : on_item_selected(file_path)

SpecSearch == InitApp /\ [][NextSearch]_vars

\* the full, unfiltered listing: every file of the directory, none without one
Listing == IF directory = None THEN <<>> ELSE file_items_with(transcriptions)

\* C30: with fewer than 3 characters in the search box the tree shows the
\* full unfiltered listing and the store is not searched, though the store
\* itself answers queries of any length; with 3 or more characters the tree
\* shows exactly the rows the store's search returns.
C30_ShortQueryShowsListing ==
    [][ui_last'.op = "search_transcripts" =>
          /\ \A query \in UIQueries :
                Elements(search_transcripts(query)) = Matching(query)
          /\ IF Len(ui_last'.query) < 3
             THEN /\ tree' = Listing
                  /\ db_last' = db_last
             ELSE /\ db_last'.op = "search_transcripts"
                  /\ db_last'.query = Some(ui_last'.query)
                  /\ tree' = result_items(db_last'.rows)
                  /\ Elements(db_last'.rows) = Matching(ui_last'.query)]_vars

(* ------------------------- playing to the end --------------------------- *)

\* SpecPlay: the control thread makes some calls and then none, while the
\* device goes on invoking the callback.

\* a callback has raised: sounddevice registers the callback with
\* error=paAbort, so the stream aborts and the callback is not invoked again,
\* whatever the control thread calls afterwards (no method restarts the
\* stream)
aborted == run.state # "active"

\* a control call; with final it is the last one the control thread makes
leave(final) ==
    /\ run.phase = "setup"
    /\ run' = IF final
              THEN [run EXCEPT !.phase = IF aborted THEN "silent" ELSE "left",
                               !.start = position', !.emitted = <<>>]
              ELSE run

\* a render callback; once the control thread has left, the frames by which
\* the position advanced are added to what has been played; an exception
\* aborts the stream
render(frames) ==
    /\ ~aborted
    /\ callback(frames)
    /\ run' = [run EXCEPT
                 !.emitted = IF run.phase = "left"
                             THEN @ \o PySlice(outdata', 0, position' - position)
                             ELSE @,
                 !.state = IF last'.raised THEN "aborting" ELSE @]

\* the finished notification of the stream that aborted, delivered once
finished ==
    /\ run.state = "aborting"
    /\ finished_callback
    /\ run' = [run EXCEPT !.state = "inactive"]

NextPlay ==
    \/ \E file_path \in Paths, final \in BOOLEAN :
          load_file(file_path) /\ leave(final)
             /\ UNCHANGED <<threads, store, window, names, disk, panel, copy>>
    \/ \E final \in BOOLEAN :
          play /\ leave(final) /\ UNCHANGED <<threads, store, window, names, disk, panel, copy>>
    \/ \E final \in BOOLEAN :
          pause /\ leave(final) /\ UNCHANGED <<threads, store, window, names, disk, panel, copy>>
    \/ \E final \in BOOLEAN :
          stop /\ leave(final) /\ UNCHANGED <<threads, store, window, names, disk, panel, copy>>
    \/ \E k \in -MaxSeek..MaxSeek, final \in BOOLEAN :
          seek(k) /\ leave(final) /\ UNCHANGED <<threads, store, window, names, disk, panel, copy>>
    \/ \E v \in LockVolumes, final \in BOOLEAN :
          set_volume(v) /\ leave(final)
             /\ UNCHANGED <<threads, store, window, names, disk, panel, copy>>
    \/ (\E frames \in 1..MaxFrames : render(frames))
          /\ UNCHANGED <<threads, store, window, names, disk, panel, copy>>
    \/ finished /\ UNCHANGED <<threads, store, window, names, disk, panel, copy>>

\* the device keeps invoking the callback of a started stream, and delivers
\* the finished notification of an aborted one
SpecPlay ==
    /\ Init
    /\ [][NextPlay]_vars
    /\ WF_vars(\E frames \in 1..MaxFrames :
                  render(frames) /\ UNCHANGED <<threads, store, window, names, disk, panel, copy>>)
    /\ WF_vars(finished /\ UNCHANGED <<threads, store, window, names, disk, panel, copy>>)

\* self.data[start:] at the volume set: the frames of the buffer from
\* position start on (a negative start counts from the end of the buffer)
FramesFrom(start) ==
    scaled(PySlice(Val(data).rows, start, FrameCount(data)))

\* C31: once a buffer is loaded, playing is true and the control thread makes
\* no further call while the callback keeps being invoked, playing eventually
\* becomes false; when it does, position is the frame count and the frames
\* played are those of the buffer from the starting position, each once and
\* in order.
C31_PlaysToTheEnd ==
    /\ (run.phase = "left" /\ stream /\ Loaded /\ playing) ~> ~playing
    /\ [][(run.phase = "left" /\ playing /\ ~playing') =>
             /\ position' = FrameCount(data)
             /\ run'.emitted = FramesFrom(run.start)]_vars

(* --------------------------- transport buttons -------------------------- *)

\* InitWindow: the application starts with a working output device and
\* every file of the directory in place
InitWindow == Constructed(FALSE) /\ stream

\* the maxima of the volume slider and of the seek slider
VolumeSliderMax == 100
SeekSliderMax == 1000

\* what the files of the directory hold, by the name the decoder knows the
\* recording under: FileA the stereo recording, FileB the mono one; FileGone
\* holds nothing sf.read can decode (and sf.read raises on a missing file)
recording(file_path) ==
    IF file_path = FileA THEN "a.wav"
    ELSE IF file_path = FileB THEN "m.wav" ELSE "bad.wav"

\* the GUI thread moves on inside a handler
goto(at) == gui' = [gui EXCEPT !.at = at]

\* play_audio(), the Play/Pause button, lines 200-212: without a current
\* file the current item is loaded first; no item, an item without a path or
\* a failed load ends the handler
play_audio ==
    LET item == widgets.current_item IN
    /\ gui_idle
    /\ IF current_file # None
       THEN goto("play_test") /\ UNCHANGED player
       ELSE IF item = None
       THEN UNCHANGED <<player, gui>>
       ELSE /\ load_file(recording(Val(item)))
            /\ goto(IF sf_read(recording(Val(item))).ok
                    THEN "play_test" ELSE "idle")
            /\ UNCHANGED threads
    /\ UNCHANGED <<store, window, names, disk, watch, copy, widgets, helpers>>

\* line 214: self.audio_player.playing is read, without the lock
play_audio_test ==
    /\ gui.at = "play_test"
    /\ goto(IF playing THEN "pause_call" ELSE "play_call")
    /\ UNCHANGED <<player, store, window, names, disk, watch, copy, widgets,
                   helpers>>

\* lines 215 and 218: pause() or play(), as the test came out
play_audio_call ==
    /\ gui.at \in {"pause_call", "play_call"}
    /\ IF gui.at = "pause_call" THEN pause ELSE play
    /\ goto(IF gui.at = "pause_call" THEN "pause_label" ELSE "play_label")
    /\ UNCHANGED <<threads, store, window, names, disk, watch, copy, widgets,
                   helpers>>

\* lines 216 and 219: the button is relabelled
play_audio_label ==
    /\ gui.at \in {"pause_label", "play_label"}
    /\ widgets' = [widgets EXCEPT !.play_button =
                      IF gui.at = "pause_label" THEN "Play" ELSE "Pause"]
    /\ goto("idle")
    /\ UNCHANGED <<player, store, window, names, disk, watch, copy, helpers>>

\* stop_audio(), the Stop button, line 223: stop()
stop_audio ==
    /\ gui_idle
    /\ stop
    /\ goto("stop_label")
    /\ UNCHANGED <<threads, store, window, names, disk, watch, copy, widgets,
                   helpers>>

\* line 224: setText("Play")
stop_audio_label ==
    /\ gui.at = "stop_label"
    /\ widgets' = [widgets EXCEPT !.play_button = "Play"]
    /\ goto("idle")
    /\ UNCHANGED <<player, store, window, names, disk, watch, copy, helpers>>

\* MainWindow.set_volume(value), the volume slider's valueChanged: value
\* is a slider value whose hundredth is a multiple of 1 / VolDen
ui_set_volume(value) ==
    /\ gui_idle
    /\ value \in 0..VolumeSliderMax
    /\ (value * VolDen) % VolumeSliderMax = 0
    /\ set_volume((value * VolDen) \div VolumeSliderMax)
    /\ UNCHANGED <<threads, glue>>

\* seek_audio(value), the seek slider's sliderMoved, lines 257-259: with a
\* current file get_duration() is called and position computed. value is a
\* slider value whose position in seconds is a multiple of 1 / SeekDen
seek_audio(value) ==
    LET duration == get_duration
        seconds == value * duration[1] * SeekDen
        thousand == SeekSliderMax * duration[2]
    IN  /\ gui_idle
        /\ value \in 0..SeekSliderMax
        /\ seconds % thousand = 0
        /\ gui' = IF current_file # None
                  THEN [at |-> "seek_call", seek |-> seconds \div thousand]
                  ELSE gui
        /\ UNCHANGED <<player, store, window, names, disk, watch, copy,
                       widgets, helpers>>

\* seek_audio, line 260: seek(position)
seek_audio_call ==
    /\ gui.at = "seek_call"
    /\ seek(gui.seek)
    /\ gui' = [at |-> "idle", seek |-> 0]
    /\ UNCHANGED <<threads, store, window, names, disk, watch, copy, widgets,
                   helpers>>

\* closeEvent(event), lines 435-447: while the worker made last is running
\* the question dialog opens
closeEvent ==
    /\ gui_idle
    /\ goto(IF helpers.current THEN "asking" ELSE "cleanup")
    /\ UNCHANGED <<player, store, window, names, disk, watch, copy, widgets,
                   helpers>>

\* the dialog is answered: on No the event is ignored
question(reply) ==
    /\ gui.at = "asking"
    /\ goto(IF reply = "No" THEN "idle" ELSE "cleanup")
    /\ UNCHANGED <<player, store, window, names, disk, watch, copy, widgets,
                   helpers>>

\* lines 449-452: MainWindow.is_playing is False from the constructor on, so
\* stop_audio is not called; cleanup() begins, and stream.stop() makes a
\* started stream inactive: PortAudio gives its finished notification
closing_stop ==
    /\ gui.at = "cleanup"
    /\ IF stream
       THEN finished_callback
       ELSE UNCHANGED <<session, stream, outdata, last, halted>>
    /\ goto("closing")
    /\ UNCHANGED <<threads, store, window, names, disk, watch, copy, widgets,
                   helpers>>

\* cleanup(), lines 172-175: the stream is closed
closing_stream ==
    /\ gui.at = "closing"
    /\ cleanup_stream
    /\ goto("clearing")
    /\ UNCHANGED <<store, window, names, disk, watch, copy, widgets, helpers>>

\* cleanup(), lines 177-185, and the rest of closeEvent: the event is
\* accepted and the window closes
closing_clear ==
    /\ gui.at = "clearing"
    /\ cleanup_clear
    /\ goto("closed")
    /\ UNCHANGED <<store, window, names, disk, watch, copy, widgets, helpers>>

\* the device asks the started stream for frames
device_callback(frames) ==
    /\ stream
    /\ callback(frames)
    /\ UNCHANGED <<threads, glue>>

\* the slider positions tried: the quarters of the range
Quarters == 4

\* the text typed into the search box. A text of fewer than MinQueryLen
\* characters shows the listing, as refresh_files does
TypedQueries == {<<"a", "a", "b">>}

\* refresh_files is the slot of the refresh timer and of the directory
\* watcher
NextButtons ==
    \/ select_directory
    \/ refresh_files
    \/ \E query \in TypedQueries : ui_search_transcripts(query)
    \/ \E file_path \in clickable : on_item_selected(file_path)
    \/ play_audio
    \/ play_audio_test
    \/ play_audio_call
    \/ play_audio_label
    \/ stop_audio
    \/ stop_audio_label
    \/ \E q \in 0..Quarters :
          ui_set_volume((q * VolumeSliderMax) \div Quarters)
    \/ \E q \in 0..Quarters : seek_audio((q * SeekSliderMax) \div Quarters)
    \/ seek_audio_call
    \/ \E frames \in 1..MaxFrames : device_callback(frames)
    \/ closeEvent
    \/ closing_stop
    \/ closing_stream
    \/ closing_clear

SpecButtons == InitWindow /\ [][NextButtons]_vars

\* C33: in every state reached through Play/Pause clicks, Stop clicks and
\* render callbacks, once the handler of the click has returned, the
\* Play/Pause button reads "Pause" exactly when the player is playing.
C33_LabelAgreesWithEngine ==
    gui_idle => ((widgets.play_button = "Pause") = playing)

(* ----------------------------- transcription --------------------------- *)

\* transcriptions in flight in one execution: workers running and signals
\* of finished workers not yet delivered
MaxWorkers == 2

\* seq without its i-th element
without(seq, i) == SubSeq(seq, 1, i - 1) \o SubSeq(seq, i + 1, Len(seq))

\* the process is alive
running == gui.at # "aborted"

\* load_model(), the run of load_model_thread: self.model is assigned
load_model ==
    /\ running
    /\ helpers.model = None
    /\ helpers' = [helpers EXCEPT !.model = Some("base")]
    /\ UNCHANGED <<audio, store, window, names, disk, widgets, gui>>

\* transcribe_audio(): without a current item (or with one that has no
\* path) it returns; else the button is disabled, the progress bar shown
\* and a worker made from self.model and started. Reading self.model before
\* load_model has assigned it raises AttributeError, which leaves the slot.
\* at is where the GUI thread is once transcribe_audio has returned
transcribe_audio(at) ==
    /\ IF widgets.current_item = None
       THEN UNCHANGED <<widgets, helpers>>
       ELSE /\ widgets' = [widgets EXCEPT !.transcribe_button = FALSE,
                                          !.progress = TRUE]
            /\ helpers' =
                 IF helpers.model = None
                 THEN [helpers EXCEPT !.read_model = "unset"]
                 ELSE [helpers EXCEPT
                          !.read_model = "base",
                          !.workers =
                             Append(@, [file_path |-> Val(widgets.current_item),
                                        readable |-> getmtime_ok(
                                                   Val(widgets.current_item)),
                                        emitted |-> FALSE]),
                          !.current = TRUE]
    /\ goto(IF widgets.current_item # None /\ helpers.model = None
            THEN "aborted" ELSE at)
    /\ UNCHANGED <<audio, store, window, names, disk>>

\* the workers that have not emitted their signal yet
working == SelectSeq(helpers.workers, LAMBDA w : ~w.emitted)

\* a further worker stays within the bound: of the threads, and of the
\* transcriptions whose signal has not been delivered
in_bound ==
    (widgets.current_item # None /\ helpers.model # None) =>
        /\ Len(helpers.workers) < MaxWorkers
        /\ Len(working) + Len(helpers.queued) < MaxWorkers

\* the Transcribe button, clickable while enabled
transcribe_clicked ==
    /\ gui_idle
    /\ widgets.transcribe_button
    /\ in_bound
    /\ transcribe_audio("idle")

\* show_context_menu(position), lines 78-85: a right click on an item with a
\* path makes it the current item and opens the menu
show_context_menu(file_path) ==
    /\ gui_idle
    /\ file_path # None
    /\ file_path \in clickable
    /\ widgets' = [widgets EXCEPT !.current_item = file_path]
    /\ goto("menu")
    /\ UNCHANGED <<audio, store, window, names, disk, helpers>>

\* lines 86-90: the menu closes with the action chosen; "Transcribe" calls
\* transcribe_audio, whatever the state of the button
menu_exec(action) ==
    /\ gui.at = "menu"
    /\ IF action = "Transcribe"
       THEN in_bound /\ transcribe_audio("idle")
       ELSE /\ goto("idle")
            /\ UNCHANGED <<audio, store, window, names, disk, widgets,
                           helpers>>

\* on_transcription_error(error), the slot of a worker's error signal
on_transcription_error ==
    /\ dispatching
    /\ widgets' = [widgets EXCEPT !.progress = FALSE, !.transcribe_button = TRUE]
    /\ UNCHANGED <<audio, store, window, names, disk, gui>>

\* TranscriptionWorker.run of the i-th running worker, on its own thread,
\* up to its emit: model.transcribe returned and finished is emitted (line
\* 28), or it raised and error is emitted (line 30; it raises on a file that
\* was gone when the worker started). The signal is queued for the GUI
\* thread; the thread is still running
worker_run(i, signal, transcript) ==
    /\ running
    /\ i \in 1..Len(helpers.workers)
    /\ ~helpers.workers[i].emitted
    /\ signal = "finished" => helpers.workers[i].readable
    /\ helpers' =
          [helpers EXCEPT
              !.workers[i].emitted = TRUE,
              !.queued = Append(@, [signal |-> signal,
                                    file_path |-> helpers.workers[i].file_path,
                                    transcript |-> IF signal = "finished"
                                                   THEN transcript ELSE <<>>])]
    /\ UNCHANGED <<audio, store, window, names, disk, widgets, gui>>

\* run() of the i-th worker returns after its emit: the thread has ended and
\* isRunning() is False
worker_end(i) ==
    /\ running
    /\ i \in 1..Len(helpers.workers)
    /\ helpers.workers[i].emitted
    /\ helpers' =
          [helpers EXCEPT
              !.workers = without(@, i),
              !.current = IF i = Len(helpers.workers) THEN FALSE ELSE @]
    /\ UNCHANGED <<audio, store, window, names, disk, widgets, gui>>

\* the GUI thread takes the oldest queued signal and runs its slot. tick:
\* the clock of the store has reached a later second than that of the row
\* before
deliver ==
    LET signal == Head(helpers.queued) IN
    /\ helpers.queued # <<>>
    /\ IF signal.signal = "finished"
       THEN \E tick \in BOOLEAN :
               on_transcription_complete(signal.file_path, signal.transcript,
                                         tick)
       ELSE on_transcription_error
    /\ helpers' = [helpers EXCEPT !.queued = Tail(@)]

\* the file FileGone of the directory is deleted
unlink ==
    /\ ~deleted
    /\ deleted' = TRUE
    /\ UNCHANGED <<audio, store, window, names, panel>>

\* closeEvent and cleanup() in the window of the transcriptions: the player
\* has been left alone
closing ==
    \/ closeEvent
    \/ \E reply \in {"Yes", "No"} : question(reply)
    \/ closing_stop
    \/ closing_stream
    \/ closing_clear

\* the transcript a worker returns
Heard == {<<"a", "a", "b">>}

\* the items the user clicks, when the tree shows them: a node without a
\* path, the first file and the file that gets deleted
Picked == {None, Some(FileA), Some(FileGone)}

\* refresh_files is the slot of the refresh timer and of the directory
\* watcher
NextTranscribe ==
    \/ select_directory
    \/ refresh_files
    \/ \E file_path \in clickable \cap Picked : on_item_selected(file_path)
    \/ load_model
    \/ transcribe_clicked
    \/ \E file_path \in clickable \cap Picked : show_context_menu(file_path)
    \/ \E action \in {"Transcribe", "Save Transcription"} : menu_exec(action)
    \/ \E i \in 1..MaxWorkers, signal \in {"finished", "error"},
          transcript \in Heard : worker_run(i, signal, transcript)
    \/ \E i \in 1..MaxWorkers : worker_end(i)
    \/ deliver
    \/ \E query \in TypedQueries : ui_search_transcripts(query)
    \/ unlink
    \/ closing

\* while workers are running one of them comes to its emit, a worker that
\* has emitted ends, and the event loop of the GUI thread delivers a queued
\* signal
SpecTranscribe ==
    /\ InitWindow
    /\ [][NextTranscribe]_vars
    /\ WF_vars(\E i \in 1..MaxWorkers, signal \in {"finished", "error"},
                  transcript \in Heard : worker_run(i, signal, transcript))
    /\ WF_vars(\E i \in 1..MaxWorkers : worker_end(i))
    /\ WF_vars(deliver)

\* C34: at most one TranscriptionWorker is running at any time.
C34_OneWorkerAtATime ==
    Len(helpers.workers) <= 1

\* closeEvent has gone on to cleanup(): the window is closing or closed
leaving == gui.at \in {"cleanup", "closing", "clearing", "closed"}

\* C35: every transcription that was started leaves the UI usable again,
\* whether its worker emits finished or error and whether or not the
\* transcript can be stored: the progress bar is hidden and the Transcribe
\* button enabled (unless the window is closed first).
C35_UiUsableAgain ==
    (helpers.workers # <<>>) ~>
        ((~widgets.progress /\ widgets.transcribe_button) \/ leaving)

\* C36: transcribe_audio never reads self.model before load_model has
\* assigned it, so no worker is made from an unset model.
C36_ModelSetBeforeUse ==
    helpers.read_model # "unset"


(* ------------------------- the copy in src/main.py ---------------------- *)

\* SpecTwin: the AudioPlayer of src/main.py gets every call the player
\* gets. It has no volume: SpecTwin leaves the player's volume at 1.0.

\* the samples as they are, in the unit of outdata (1 / VolDen)
full_scale(rows) ==
    [i \in 1..Len(rows) |-> [c \in 1..Len(rows[i]) |-> rows[i][c] * VolDen]]

\* load_file: the except branch only returns
main_load_file(t, file_path) ==
    LET r == sf_read(file_path) IN
    IF r.ok
    THEN [t EXCEPT !.data = Some(installed(r)),
                   !.samplerate = Some(r.samplerate),
                   !.current_file = Some(file_path),
                   !.position = 0]
    ELSE t

\* play: no test of self.data
main_play(t) == [t EXCEPT !.playing = TRUE]

main_pause(t) == [t EXCEPT !.playing = FALSE]

main_stop(t) == [t EXCEPT !.playing = FALSE, !.position = 0]

main_seek(t, k) ==
    IF t.data # None /\ t.samplerate # None
    THEN [t EXCEPT !.position = Min(PyInt(k * Val(t.samplerate), SeekDen),
                                    FrameCount(t.data))]
    ELSE t

main_callback(t, frames) ==
    LET valid == Min(frames, FrameCount(t.data) - t.position)
        src == full_scale(PySlice(Val(t.data).rows, t.position,
                                  t.position + valid))
        written == assign(fresh(frames), valid, src)
    IN  IF t.data = None \/ ~t.playing
        THEN [t EXCEPT !.outdata = fill0(frames)]
        ELSE IF t.position >= FrameCount(t.data)
        THEN [t EXCEPT !.playing = FALSE, !.outdata = fill0(frames)]
        ELSE IF can_assign(src, valid)
        THEN [t EXCEPT !.outdata = IF valid < frames
                                   THEN zero_tail(written, valid)
                                   ELSE written,
                       !.position = @ + valid]
        ELSE \* the assignment raises ValueError
             [t EXCEPT !.outdata = fresh(frames)]

main_finished_callback(t) == [t EXCEPT !.playing = FALSE, !.position = 0]

\* the constructor of the copy has no except: it returns only with a
\* started stream
InitTwin == Init /\ stream

NextTwin ==
    \/ \E file_path \in Paths :
          /\ load_file(file_path)
          /\ twin' = main_load_file(twin, file_path)
          /\ UNCHANGED <<threads, store, window, names, disk, watch, panel>>
    \/ /\ play
       /\ twin' = main_play(twin)
       /\ UNCHANGED <<threads, store, window, names, disk, watch, panel>>
    \/ /\ pause
       /\ twin' = main_pause(twin)
       /\ UNCHANGED <<threads, store, window, names, disk, watch, panel>>
    \/ /\ stop
       /\ twin' = main_stop(twin)
       /\ UNCHANGED <<threads, store, window, names, disk, watch, panel>>
    \/ \E k \in -MaxSeek..MaxSeek :
          /\ seek(k)
          /\ twin' = main_seek(twin, k)
          /\ UNCHANGED <<threads, store, window, names, disk, watch, panel>>
    \/ \E frames \in 1..MaxFrames :
          /\ callback(frames)
          /\ twin' = main_callback(twin, frames)
          /\ UNCHANGED <<threads, store, window, names, disk, watch, panel>>
    \/ /\ finished_callback
       /\ twin' = main_finished_callback(twin)
       /\ UNCHANGED <<threads, store, window, names, disk, watch, panel>>

SpecTwin == InitTwin /\ [][NextTwin]_vars

\* C39: after the same calls (load_file, play, pause, stop, seek, render
\* callbacks, finished notifications; volume 1.0) the two AudioPlayer
\* classes agree on whether a buffer is loaded, on current_file, position
\* and playing, and on the frames of the last callback.
C39_CopiesEquivalent ==
    /\ (twin.data # None) = (data # None)
    /\ twin.current_file = current_file
    /\ twin.position = position
    /\ twin.playing = playing
    /\ twin.outdata = outdata

====
